---- MODULE Spec2Model ----
(***************************************************************************)
(* A model of swe_bench_validator: the record loader (load_data_point),   *)
(* the outcome checker (validate_evaluation_results) and the per-file      *)
(* orchestrator (validate_file) of src/swe_bench_validator/validator.py,   *)
(* and the two batch drivers: the loop of main in cli.py and               *)
(* validate_directory.                                                     *)
(*                                                                         *)
(* Python values are tagged records [t |-> tag, s |-> sequence]:           *)
(*   "str"  s = the characters (or lexemes) of the string                  *)
(*   "num"  s = its digits            "bool" s = <<"1">> or <<"0">>        *)
(*   "null" s = <<>>                  "obj"  s = its keys                  *)
(*   "arr"  s = its elements: a string element is its text, a number       *)
(*          element is "#" and its digits, a nested array is "#[]"         *)
(*   "absent" marks a key that the enclosing dict does not hold.           *)
(***************************************************************************)
EXTENDS Naturals, Sequences, FiniteSets, TLC

VARIABLES
    pc,                 \* position in the operation being run
    file,               \* the data point file handed to load / validate_file
    loaded,             \* what load_data_point returned or raised
    data_point,         \* validate_file's data_point (the loaded dict)
    instance_id,        \* validate_file's instance_id
    errors,             \* validate_file's errors list
    evaluation_results, \* the raw result handed to the outcome checker
    checked,            \* what validate_evaluation_results returned or raised
    env,                \* the collaborators' behaviour for this run
    calls,              \* the collaborator calls made so far, in order
    result,             \* the ValidationResult returned by validate_file
    batch               \* a batch driver's locals: files, position, results

vars == <<pc, file, loaded, data_point, instance_id, errors,
          evaluation_results, checked, env, calls, result, batch>>

-----------------------------------------------------------------------------
(* Bounds of the model.                                                    *)

\* longest FAIL_TO_PASS / PASS_TO_PASS string (in lexemes) enumerated
MaxStrLen == 3
\* longest patch string (in characters) enumerated
MaxPatchLen == 2
\* longest FAIL_TO_PASS / PASS_TO_PASS list handed to the outcome checker
MaxTests == 2
\* most files the log area holds for one run
MaxLogFiles == 2
\* number of JSON files in the directory a batch is run on
MaxFiles == 3

-----------------------------------------------------------------------------
(* Python values.                                                          *)

JV(t, s) == [t |-> t, s |-> s]
Absent == JV("absent", <<>>)
JNull == JV("null", <<>>)
JStr(s) == JV("str", s)
JNum(s) == JV("num", s)
JTrue == JV("bool", <<"1">>)
JFalse == JV("bool", <<"0">>)
JArr(elems) == JV("arr", elems)
JObj(keys) == JV("obj", keys)

\* type(v).__name__
type_name(v) ==
    CASE v.t = "str" -> "str"
      [] v.t = "num" -> "int"
      [] v.t = "bool" -> "bool"
      [] v.t = "null" -> "NoneType"
      [] v.t = "arr" -> "list"
      [] OTHER -> "dict"

\* bool(v): Python truthiness
truthy(v) ==
    CASE v.t = "str" -> v.s # <<>>
      [] v.t = "num" -> v.s # <<"0">>
      [] v.t = "bool" -> v.s = <<"1">>
      [] v.t = "arr" -> v.s # <<>>
      [] v.t = "obj" -> v.s # <<>>
      [] OTHER -> FALSE

Whitespace == {" "}

\* str.strip(): drop leading and trailing whitespace
RECURSIVE lstrip(_)
lstrip(s) == IF s # <<>> /\ Head(s) \in Whitespace THEN lstrip(Tail(s)) ELSE s

RECURSIVE rstrip(_)
rstrip(s) ==
    IF s # <<>> /\ s[Len(s)] \in Whitespace
    THEN rstrip(SubSeq(s, 1, Len(s) - 1))
    ELSE s

strip(s) == rstrip(lstrip(s))

\* all sequences over S of length at most n
SeqUpTo(S, n) == UNION {[1..k -> S] : k \in 0..n}

-----------------------------------------------------------------------------
(* json.loads on a string of lexemes.                                      *)

StrLits == {"\"t1\"", "\"t2\""}
NumLits == {"7"}

Unquote(tk) == IF tk = "\"t1\"" THEN "t1" ELSE "t2"

\* how a decoded value is kept as an element of a decoded array
ElemAtom(v) ==
    CASE v.t = "str" -> v.s[1]
      [] v.t = "num" -> "#7"
      [] OTHER -> "#[]"

ParseFail == [ok |-> FALSE, next |-> 0, v |-> JNull]

RECURSIVE ParseValue(_, _)
RECURSIVE ParseElems(_, _, _)

\* one JSON value starting at lexeme i
ParseValue(toks, i) ==
    IF i > Len(toks) THEN ParseFail
    ELSE IF toks[i] \in StrLits
         THEN [ok |-> TRUE, next |-> i + 1, v |-> JStr(<<Unquote(toks[i])>>)]
    ELSE IF toks[i] \in NumLits
         THEN [ok |-> TRUE, next |-> i + 1, v |-> JNum(<<toks[i]>>)]
    ELSE IF toks[i] = "["
         THEN IF i + 1 <= Len(toks) /\ toks[i + 1] = "]"
              THEN [ok |-> TRUE, next |-> i + 2, v |-> JArr(<<>>)]
              ELSE ParseElems(toks, i + 1, <<>>)
    ELSE ParseFail

\* the elements of an array from lexeme i on, up to its closing bracket
ParseElems(toks, i, acc) ==
    LET r == ParseValue(toks, i) IN
    IF ~r.ok \/ r.next > Len(toks) THEN ParseFail
    ELSE IF toks[r.next] = "]"
         THEN [ok |-> TRUE, next |-> r.next + 1,
               v |-> JArr(Append(acc, ElemAtom(r.v)))]
    ELSE IF toks[r.next] = ","
         THEN ParseElems(toks, r.next + 1, Append(acc, ElemAtom(r.v)))
    ELSE ParseFail

\* json.loads(s): ok = FALSE stands for json.JSONDecodeError
json_loads(toks) ==
    LET r == ParseValue(toks, 1) IN
    IF r.ok /\ r.next = Len(toks) + 1
    THEN [ok |-> TRUE, v |-> r.v]
    ELSE [ok |-> FALSE, v |-> JNull]

-----------------------------------------------------------------------------
(* The record loader.                                                      *)

REQUIRED_FIELDS ==
    <<"instance_id", "repo", "base_commit", "patch", "FAIL_TO_PASS", "PASS_TO_PASS">>

RequiredSet == {REQUIRED_FIELDS[i] : i \in 1..Len(REQUIRED_FIELDS)}

TEST_LIST_FIELDS == <<"FAIL_TO_PASS", "PASS_TO_PASS">>

NoPath == ""

\* an exception message: its template, the file path and the field names it
\* interpolates, and the remaining detail
Msg(tmpl, path, names, detail) ==
    [tmpl |-> tmpl, path |-> path, names |-> names, detail |-> detail]

NoMsg == Msg("", NoPath, <<>>, "")

NoData == [k \in RequiredSet |-> Absent]

Raise(exc, msg) == [exc |-> exc, msg |-> msg, ret |-> NoData]
Return(data) == [exc |-> "none", msg |-> NoMsg, ret |-> data]

\* `field in data` for the parsed top-level value: a key of an object, an
\* element of an array, a substring of a string (data[field] # Absent records
\* each of these)
contains(f, field) == f.data[field] # Absent

\* check_test_list taking a native array as well as an encoded one
check_test_list_native(f, field) ==
    LET v == f.data[field] IN
    IF v.t = "arr" THEN Return(f.data)
    ELSE IF v.t # "str"
    THEN Raise("StructuralError",
               Msg("Field {} must be a JSON string array, got {}",
                   NoPath, <<field>>, type_name(v)))
    ELSE LET r == json_loads(v.s) IN
         IF ~r.ok
         THEN Raise("StructuralError",
                    Msg("Invalid JSON in {}: {}", NoPath, <<field>>, "JSONDecodeError"))
         ELSE IF r.v.t # "arr"
         THEN Raise("StructuralError",
                    Msg("Field {} must be a JSON array, got {}",
                        NoPath, <<field>>, type_name(r.v)))
         ELSE Return(f.data)

\* the check of one test list field; exc = "none" when it passes
check_test_list(f, field) ==
    LET v == f.data[field] IN
    IF v.t # "str"
    THEN Raise("StructuralError",
               Msg("Field {} must be a JSON string array, got {}",
                   NoPath, <<field>>, type_name(v)))
    ELSE LET r == json_loads(v.s) IN
         IF ~r.ok
         THEN Raise("StructuralError",
                    Msg("Invalid JSON in {}: {}", NoPath, <<field>>, "JSONDecodeError"))
         ELSE IF r.v.t # "arr"
         THEN Raise("StructuralError",
                    Msg("Field {} must be a JSON array, got {}",
                        NoPath, <<field>>, type_name(r.v)))
         ELSE Return(f.data)

\* check_patch without the strip: a blank patch passes
check_patch_nostrip(f) ==
    LET p == f.data["patch"] IN
    IF ~truthy(p)
    THEN Raise("StructuralError", Msg("Patch field is empty in {}", f.path, <<>>, ""))
    ELSE IF p.t # "str"
    THEN Raise("AttributeError", Msg("no attribute 'strip'", NoPath, <<>>, type_name(p)))
    ELSE Return(f.data)

\* check_patch returning the record with its test lists decoded in place
check_patch_decoding(f) ==
    LET p == f.data["patch"] IN
    IF ~truthy(p) \/ (p.t = "str" /\ strip(p.s) = <<>>)
    THEN Raise("StructuralError", Msg("Patch field is empty in {}", f.path, <<>>, ""))
    ELSE IF p.t # "str"
    THEN Raise("AttributeError", Msg("no attribute 'strip'", NoPath, <<>>, type_name(p)))
    ELSE Return([k \in RequiredSet |->
                    IF k \in {"FAIL_TO_PASS", "PASS_TO_PASS"}
                    THEN json_loads(f.data[k].s).v
                    ELSE f.data[k]])

\* the check of the patch field
check_patch(f) ==
    LET p == f.data["patch"] IN
    IF ~truthy(p)
    THEN Raise("StructuralError", Msg("Patch field is empty in {}", f.path, <<>>, ""))
    ELSE IF p.t # "str"
    THEN Raise("AttributeError", Msg("no attribute 'strip'", NoPath, <<>>, type_name(p)))
    ELSE IF strip(p.s) = <<>>
    THEN Raise("StructuralError", Msg("Patch field is empty in {}", f.path, <<>>, ""))
    ELSE Return(f.data)

load_data_point(f) ==
    IF f.io = "badjson"
    THEN Raise("StructuralError", Msg("Invalid JSON in {}: {}", f.path, <<>>, "JSONDecodeError"))
    ELSE IF f.io = "missing"
    THEN Raise("StructuralError", Msg("File not found: {}", f.path, <<>>, ""))
    ELSE IF f.io = "unreadable"
    THEN Raise("StructuralError", Msg("Error reading {}: {}", f.path, <<>>, "OSError"))
    ELSE IF f.top = "scalar"
    THEN Raise("TypeError", Msg("argument is not iterable", NoPath, <<>>, ""))
    ELSE LET missing_fields == SelectSeq(REQUIRED_FIELDS, LAMBDA k : ~contains(f, k)) IN
         IF missing_fields # <<>>
         THEN Raise("StructuralError",
                    Msg("Missing required fields in {}: {}", f.path, missing_fields, ""))
         ELSE IF f.top # "object"
         THEN Raise("TypeError", Msg("indices must be integers", NoPath, <<>>, ""))
         ELSE LET ftp == check_test_list(f, TEST_LIST_FIELDS[1])
                  ptp == check_test_list(f, TEST_LIST_FIELDS[2])
              IN IF ftp.exc # "none" THEN ftp
                 ELSE IF ptp.exc # "none" THEN ptp
                 ELSE check_patch(f)

-----------------------------------------------------------------------------
(* Strings of the outcome checker.                                         *)

UpperChar(c) ==
    CASE c = "a" -> "A" [] c = "d" -> "D" [] c = "e" -> "E" [] c = "f" -> "F"
      [] c = "i" -> "I" [] c = "l" -> "L" [] c = "k" -> "K" [] c = "n" -> "N"
      [] c = "o" -> "O" [] c = "p" -> "P" [] c = "r" -> "R" [] c = "s" -> "S"
      [] c = "t" -> "T" [] c = "u" -> "U" [] c = "w" -> "W"
      [] OTHER -> c

\* str.upper()
upper(s) == [i \in 1..Len(s) |-> UpperChar(s[i])]

\* str(v)
pystr(v) ==
    CASE v.t = "str" -> v.s
      [] v.t = "num" -> v.s
      [] v.t = "bool" -> IF v.s = <<"1">> THEN <<"T", "r", "u", "e">>
                         ELSE <<"F", "a", "l", "s", "e">>
      [] v.t = "null" -> <<"N", "o", "n", "e">>
      [] v.t = "arr" -> <<"[", "]">>
      [] OTHER -> <<"{", "}">>

S_PASS == <<"P", "A", "S", "S">>
S_PASSED == <<"P", "A", "S", "S", "E", "D">>
S_TRUE == <<"T", "R", "U", "E">>
S_ONE == <<"1">>
S_UNKNOWN == <<"U", "N", "K", "N", "O", "W", "N">>
S_FAIL == <<"F", "A", "I", "L">>

\* the statuses that count as passing (lines 300 and 324)
PASSING_FTP == {S_PASS, S_PASSED, S_TRUE, S_ONE}
PASSING_PTP == {S_PASS, S_PASSED, S_TRUE, S_ONE}

\* how much of stderr / error a diagnostic carries
ErrTruncate == 500

Truncate(s) == SubSeq(s, 1, IF Len(s) < ErrTruncate THEN Len(s) ELSE ErrTruncate)

-----------------------------------------------------------------------------
(* Per-test results.  An entry of the per-test mapping is a scalar         *)
(* (t = "str", "num", "bool", "null") or a detail dict (t = "dict", d its  *)
(* keys); t = "absent" marks a test the mapping has no entry for.          *)

DetailKeys == {"status", "result", "stderr", "error"}
NoDetail == [k \in DetailKeys |-> Absent]

ScalarEntry(v) == [t |-> v.t, s |-> v.s, d |-> NoDetail]
DictEntry(d) == [t |-> "dict", s |-> <<>>, d |-> d]
AbsentEntry == [t |-> "absent", s |-> <<>>, d |-> NoDetail]
EmptyDict == DictEntry(NoDetail)

TestKeys == {"t1", "t2"}
EmptyMapping == [k \in TestKeys |-> AbsentEntry]

\* bool(mapping)
nonempty(m) == \E k \in TestKeys : m[k] # AbsentEntry

\* a key that may be missing from a dict: present says whether it is there
Slot(present, m) == [present |-> present, m |-> m]
NoSlot == Slot(FALSE, EmptyMapping)

InstanceIds == {"i1", "i2", "unknown"}

\* the instance id of a data point, as the key it is looked up under
idOf(dp) == dp["instance_id"].s[1]

\* dict.get(key, default) on a detail dict
dget(d, key, default) == IF d[key] # Absent THEN d[key] ELSE default

\* a nested array is unhashable
unhashable(test) == test = "#[]"

\* mget with a passing default for a test that has no entry
mget_assume_pass(m, test) ==
    IF test \in TestKeys /\ m[test] # AbsentEntry THEN m[test]
    ELSE [t |-> "dict", s |-> <<>>,
          d |-> [k \in {"status", "result", "stderr", "error"} |->
                   IF k = "status" THEN JStr(<<"P", "A", "S", "S">>) ELSE Absent]]

\* instance_results.get(test, {})
mget(m, test) ==
    IF test \in TestKeys /\ m[test] # AbsentEntry THEN m[test] ELSE EmptyDict

\* one diagnostic, or one classified error, of a result's errors list
ErrRec(kind, msg, test, status, extra, text) ==
    [kind |-> kind, msg |-> msg, test |-> test, status |-> status,
     extra |-> extra, text |-> text]

\* the captured error text a diagnostic carries (lines 302-306, 326-330)
Captured(test_result) ==
    IF test_result.t # "dict" THEN [extra |-> "", text |-> <<>>]
    ELSE IF truthy(test_result.d["stderr"])
    THEN [extra |-> "Error output", text |-> Truncate(test_result.d["stderr"].s)]
    ELSE IF truthy(test_result.d["error"])
    THEN [extra |-> "Error", text |-> Truncate(test_result.d["error"].s)]
    ELSE [extra |-> "", text |-> <<>>]

\* the status of one FAIL_TO_PASS test (lines 288-297)
StatusFTP(test_result) ==
    IF test_result.t # "dict"
    THEN upper(pystr(JV(test_result.t, test_result.s)))
    ELSE upper(pystr(dget(test_result.d, "status",
                          dget(test_result.d, "result", JStr(<<"U", "N", "K", "N", "O", "W", "N">>)))))

\* StatusPTP without the fallback to the "result" key
StatusPTP_noresult(test_result) ==
    IF test_result.t # "dict"
    THEN upper(pystr(JV(test_result.t, test_result.s)))
    ELSE upper(pystr(dget(test_result.d, "status", JStr(<<"U", "N", "K", "N", "O", "W", "N">>))))

\* the status of one PASS_TO_PASS test (lines 312-321)
StatusPTP(test_result) ==
    IF test_result.t # "dict"
    THEN upper(pystr(JV(test_result.t, test_result.s)))
    ELSE upper(pystr(dget(test_result.d, "status",
                          dget(test_result.d, "result", JStr(<<"U", "N", "K", "N", "O", "W", "N">>)))))

\* the body of the FAIL_TO_PASS loop: the diagnostics it appends for one test
CheckFTP(m, test) ==
    LET test_result == mget(m, test)
        status == StatusFTP(test_result)
        cap == Captured(test_result)
    IN IF status \notin PASSING_FTP
       THEN <<ErrRec("FAIL_TO_PASS test '{}' did not pass. Status: {}", NoMsg,
                     test, status, cap.extra, cap.text)>>
       ELSE <<>>

\* the body of the PASS_TO_PASS loop
CheckPTP(m, test) ==
    LET test_result == mget(m, test)
        status == StatusPTP(test_result)
        cap == Captured(test_result)
    IN IF status \notin PASSING_PTP
       THEN <<ErrRec("PASS_TO_PASS test '{}' failed after patch. Status: {}", NoMsg,
                     test, status, cap.extra, cap.text)>>
       ELSE <<>>

\* LoopFTP leaving at the first test that did not pass
RECURSIVE LoopFTP_first_failure(_, _, _, _)
LoopFTP_first_failure(m, tests, i, acc) ==
    IF i > Len(tests) \/ acc # <<>> THEN [exc |-> "none", errors |-> acc]
    ELSE IF unhashable(tests[i]) THEN [exc |-> "TypeError", errors |-> acc]
    ELSE LoopFTP_first_failure(m, tests, i + 1, acc \o CheckFTP(m, tests[i]))

\* the two loops over the tests from position i on; acc is the errors list
RECURSIVE LoopFTP(_, _, _, _)
LoopFTP(m, tests, i, acc) ==
    IF i > Len(tests) THEN [exc |-> "none", errors |-> acc]
    ELSE IF unhashable(tests[i]) THEN [exc |-> "TypeError", errors |-> acc]
    ELSE LoopFTP(m, tests, i + 1, acc \o CheckFTP(m, tests[i]))

RECURSIVE LoopPTP(_, _, _, _)
LoopPTP(m, tests, i, acc) ==
    IF i > Len(tests) THEN [exc |-> "none", errors |-> acc]
    ELSE IF unhashable(tests[i]) THEN [exc |-> "TypeError", errors |-> acc]
    ELSE LoopPTP(m, tests, i + 1, acc \o CheckPTP(m, tests[i]))

\* parse_test_list: the decoded value, or StructuralError
parse_test_list(v) == json_loads(v.s)

\* the per-test mapping the checker works on (lines 274-283); exc is the
\* exception of calling .get on a list
Resolve(raw, id) ==
    LET direct == IF raw.ids[id].present THEN raw.ids[id].m ELSE EmptyMapping IN
    IF nonempty(direct) THEN [exc |-> "none", m |-> direct]
    ELSE IF raw.tests.present THEN [exc |-> "none", m |-> raw.tests.m]
    ELSE IF raw.results.shape = "absent" THEN [exc |-> "none", m |-> direct]
    ELSE IF raw.results.shape = "list" THEN [exc |-> "AttributeError", m |-> EmptyMapping]
    ELSE [exc |-> "none",
          m |-> IF raw.results.items[id].present THEN raw.results.items[id].m
                ELSE EmptyMapping]

\* what the checker returned or raised; seen is its local instance_results
CheckRaise(exc) ==
    [exc |-> exc, all_passed |-> FALSE, errors |-> <<>>, seen |-> EmptyMapping]

validate_evaluation_results(dp, raw) ==
    LET ftp == parse_test_list(dp["FAIL_TO_PASS"])
        ptp == parse_test_list(dp["PASS_TO_PASS"])
        res == Resolve(raw, idOf(dp))
    IN IF ~ftp.ok \/ ~ptp.ok THEN CheckRaise("StructuralError")
       ELSE IF res.exc # "none" THEN CheckRaise(res.exc)
       ELSE IF ftp.v.t \notin {"arr", "str"} THEN CheckRaise("TypeError")
       ELSE LET l1 == LoopFTP(res.m, ftp.v.s, 1, <<>>) IN
            IF l1.exc # "none" THEN CheckRaise(l1.exc)
            ELSE IF ptp.v.t \notin {"arr", "str"} THEN CheckRaise("TypeError")
            ELSE LET l2 == LoopPTP(res.m, ptp.v.s, 1, l1.errors) IN
                 IF l2.exc # "none" THEN CheckRaise(l2.exc)
                 ELSE [exc |-> "none", all_passed |-> Len(l2.errors) = 0,
                       errors |-> l2.errors, seen |-> res.m]

-----------------------------------------------------------------------------
(* The data point files enumerated.                                        *)

Tok == {"[", "]", ",", "\"t1\"", "7"}
PatchChars == {" ", "d"}

\* values of a test list field: every string of at most MaxStrLen lexemes,
\* and values that are not strings
ListValues ==
    {JStr(s) : s \in SeqUpTo(Tok, MaxStrLen)}
        \cup {JArr(<<"t1">>), JArr(<<>>), JNull, JNum(<<"7">>)}

ListSamples ==
    {JStr(<<"[", "]">>), JStr(<<"[", "\"t1\"", ",", "\"t2\"", "]">>),
     JArr(<<"t1">>), JStr(<<"[">>), JStr(<<"7">>)}

\* values of the patch field
PatchValues ==
    {JStr(s) : s \in SeqUpTo(PatchChars, MaxPatchLen)}
        \cup {JNull, JNum(<<"0">>), JNum(<<"5">>), JFalse, JTrue,
              JArr(<<>>), JArr(<<"d">>), JObj(<<>>)}

PatchSamples == {JStr(<<"d">>), JStr(<<>>), JStr(<<" ">>)}

FilePath == "a.json"

\* a file: io says whether it opens and parses; top is the kind of the
\* parsed top-level value; data holds the fields of an object (and for an
\* array or a string, which field names it contains)
File(io, top, data) == [path |-> FilePath, io |-> io, top |-> top, data |-> data]

Fields(present, ftp, ptp, patch) ==
    [k \in RequiredSet |->
        IF k \notin present THEN Absent
        ELSE CASE k = "FAIL_TO_PASS" -> ftp
               [] k = "PASS_TO_PASS" -> ptp
               [] k = "patch" -> patch
               [] k = "instance_id" -> JStr(<<"i1">>)
               [] OTHER -> JStr(<<"x">>)]

\* files that do not open or do not parse
BrokenFile ==
    \E io \in {"missing", "unreadable", "badjson"} : file = File(io, "object", NoData)

\* files whose top-level value is no object
NonObjectFile ==
    \/ file = File("ok", "scalar", NoData)
    \/ \E top \in {"array", "string"}, present \in SUBSET RequiredSet :
          file = File("ok", top, Fields(present, JNull, JNull, JNull))

\* objects with any set of keys, the values drawn from the samples
ObjectByKeys ==
    \E present \in SUBSET RequiredSet,
       ftp \in ListSamples, ptp \in ListSamples, patch \in PatchSamples :
          file = File("ok", "object", Fields(present, ftp, ptp, patch))

\* complete objects, one test list drawn from all the values
ObjectByList ==
    \E v \in ListValues, w \in ListSamples, patch \in PatchSamples :
          \/ file = File("ok", "object", Fields(RequiredSet, v, w, patch))
          \/ file = File("ok", "object", Fields(RequiredSet, w, v, patch))

\* complete objects, the patch drawn from all the values
ObjectByPatch ==
    \E ftp \in ListSamples, ptp \in ListSamples, patch \in PatchValues :
          file = File("ok", "object", Fields(RequiredSet, ftp, ptp, patch))

LoadInput ==
    BrokenFile \/ NonObjectFile \/ ObjectByKeys \/ ObjectByList \/ ObjectByPatch

-----------------------------------------------------------------------------
(* Values of the variables an operation does not use.                      *)

NoLoaded == [exc |-> "unset", msg |-> NoMsg, ret |-> NoData]
NoChecked == CheckRaise("unset")
NoResults == [shape |-> "absent", items |-> [i \in InstanceIds |-> NoSlot]]
NoRaw == [ids |-> [i \in InstanceIds |-> NoSlot], tests |-> NoSlot, results |-> NoResults]
NoEnv == [lookup |-> "unset", run_error |-> FALSE, fs |-> {}, readable |-> TRUE,
          runlog |-> <<>>, test_log_path |-> "", spec |-> "unset",
          grade |-> "unset", report |-> EmptyMapping]
\* no batch is running
NoBatch ==
    [driver |-> "none", continue_on_error |-> FALSE, paths |-> <<>>, glob |-> <<>>,
     disk |-> <<>>, files_to_validate |-> <<>>, runs |-> <<>>, results |-> <<>>,
     interrupted |-> FALSE, in_file |-> 0, exit |-> "none"]
NoResult ==
    [returned |-> FALSE, instance_id |-> "unknown", file_path |-> NoPath,
     success |-> FALSE, errors |-> <<>>, warnings |-> <<>>,
     evaluation_results |-> NoRaw]

-----------------------------------------------------------------------------
(* SpecLoad: load_data_point applied to each enumerated file.              *)

InitLoad ==
    /\ batch = NoBatch
    /\ pc = "load"
    /\ LoadInput
    /\ loaded = NoLoaded
    /\ data_point = NoData
    /\ instance_id = "unknown"
    /\ errors = <<>>
    /\ evaluation_results = NoRaw
    /\ checked = NoChecked
    /\ env = NoEnv
    /\ calls = <<>>
    /\ result = NoResult

LoadCall ==
    /\ UNCHANGED batch
    /\ pc = "load"
    /\ loaded' = load_data_point(file)
    /\ pc' = "loaded"
    /\ UNCHANGED <<file, data_point, instance_id, errors, evaluation_results,
                   checked, env, calls, result>>

NextLoad == LoadCall

SpecLoad == InitLoad /\ [][NextLoad]_vars

-----------------------------------------------------------------------------
(* The data points and raw results handed to the outcome checker.          *)

\* json.dumps of a list of elements, in lexemes
ElemToks(e) ==
    CASE e = "t1" -> <<"\"t1\"">>
      [] e = "t2" -> <<"\"t2\"">>
      [] e = "#7" -> <<"7">>
      [] OTHER -> <<"[", "]">>

RECURSIVE JoinToks(_)
JoinToks(list) ==
    IF list = <<>> THEN <<>>
    ELSE IF Len(list) = 1 THEN ElemToks(list[1])
    ELSE ElemToks(list[1]) \o <<",">> \o JoinToks(Tail(list))

json_dumps(list) == JStr(<<"[">> \o JoinToks(list) \o <<"]">>)

\* a loaded data point with the given test lists
DataPoint(ftp, ptp) ==
    Fields(RequiredSet, json_dumps(ftp), json_dumps(ptp), JStr(<<"d">>))

TestLists == SeqUpTo(TestKeys, MaxTests) \cup {<<"#7">>, <<"#[]">>, <<"t1", "#[]">>}

ListPairSamples ==
    {<<<<"t1">>, <<"t2">>>>, <<<<"t2">>, <<"t1">>>>, <<<<"t1", "t2">>, <<"t1">>>>,
     <<<<"t1">>, <<"t1">>>>, <<<<>>, <<>>>>}

chars_pass == <<"p", "a", "s", "s">>
chars_Passed == <<"P", "a", "s", "s", "e", "d">>
chars_true == <<"t", "r", "u", "e">>
chars_unknown == <<"u", "n", "k", "n", "o", "w", "n">>
chars_fail == <<"f", "a", "i", "l">>

ScalarValues ==
    {JStr(S_PASS), JStr(chars_pass), JStr(chars_Passed), JStr(chars_true),
     JStr(S_ONE), JStr(S_FAIL), JStr(chars_unknown), JStr(<<>>),
     JTrue, JFalse, JNum(<<"1">>), JNum(<<"0">>), JNull}

DictValues ==
    {[k \in DetailKeys |->
        CASE k = "status" -> st [] k = "result" -> rs
          [] k = "stderr" -> se [] OTHER -> er] :
        st \in {Absent, JStr(S_PASS), JStr(chars_fail), JNull, JTrue},
        rs \in {Absent, JStr(chars_Passed), JStr(S_FAIL)},
        se \in {Absent, JStr(<<>>), JStr(<<"e", "1">>)},
        er \in {Absent, JStr(<<"e", "2">>)}}

Entries ==
    {ScalarEntry(v) : v \in ScalarValues} \cup {DictEntry(d) : d \in DictValues}
        \cup {AbsentEntry}

EntrySamples ==
    {AbsentEntry, ScalarEntry(JStr(S_PASS)), ScalarEntry(JStr(S_FAIL)), EmptyDict}

Mapping(e1, e2) == [k \in TestKeys |-> IF k = "t1" THEN e1 ELSE e2]

\* a raw result holding mapping m directly under the instance id
Direct(id, m) ==
    [ids |-> [i \in InstanceIds |-> IF i = id THEN Slot(TRUE, m) ELSE NoSlot],
     tests |-> NoSlot, results |-> NoResults]

\* three mappings that differ, to tell where the checker read from
M_DIRECT == Mapping(ScalarEntry(JStr(S_PASS)), ScalarEntry(JStr(S_PASS)))
M_TESTS == Mapping(ScalarEntry(JStr(S_PASS)), ScalarEntry(JStr(S_FAIL)))
M_RESULTS == Mapping(ScalarEntry(JStr(S_FAIL)), ScalarEntry(JStr(S_PASS)))
M_OTHER == Mapping(ScalarEntry(JStr(S_FAIL)), ScalarEntry(JStr(S_FAIL)))

SlotsOf(m) == {NoSlot, Slot(TRUE, EmptyMapping), Slot(TRUE, m)}

\* raw results of every shape: the entry under the instance id, "tests",
\* and "results" as a mapping or as a list of per-instance records
ShapedRaws ==
    {[ids |-> [i \in InstanceIds |-> IF i = "i1" THEN d ELSE NoSlot],
      tests |-> t,
      results |-> [shape |-> sh,
                   items |-> [i \in InstanceIds |->
                                IF sh = "absent" THEN NoSlot
                                ELSE IF i = "i1" THEN r ELSE Slot(TRUE, M_OTHER)]]] :
        d \in SlotsOf(M_DIRECT), t \in SlotsOf(M_TESTS),
        r \in SlotsOf(M_RESULTS), sh \in {"absent", "map", "list"}}

\* the checker's arguments: every entry under a few list pairs, every list
\* pair under a few entries, every shape under a few list pairs
CheckInput ==
    \/ \E p \in ListPairSamples, e1 \in Entries, e2 \in EntrySamples :
          /\ data_point = DataPoint(p[1], p[2])
          /\ evaluation_results = Direct("i1", Mapping(e1, e2))
    \/ \E ftp \in TestLists, ptp \in TestLists,
          e1 \in EntrySamples, e2 \in EntrySamples :
          /\ data_point = DataPoint(ftp, ptp)
          /\ evaluation_results = Direct("i1", Mapping(e1, e2))
    \/ \E p \in ListPairSamples, raw \in ShapedRaws :
          /\ data_point = DataPoint(p[1], p[2])
          /\ evaluation_results = raw

-----------------------------------------------------------------------------
(* SpecCheck: validate_evaluation_results applied to each enumerated data  *)
(* point and raw result.                                                   *)

InitCheck ==
    /\ batch = NoBatch
    /\ pc = "check"
    /\ CheckInput
    /\ file = File("ok", "object", data_point)
    /\ loaded = NoLoaded
    /\ instance_id = idOf(data_point)
    /\ errors = <<>>
    /\ checked = NoChecked
    /\ env = NoEnv
    /\ calls = <<>>
    /\ result = NoResult

CheckCall ==
    /\ UNCHANGED batch
    /\ pc = "check"
    /\ checked' = validate_evaluation_results(data_point, evaluation_results)
    /\ pc' = "checked"
    /\ UNCHANGED <<file, loaded, data_point, instance_id, errors,
                   evaluation_results, env, calls, result>>

NextCheck == CheckCall

SpecCheck == InitCheck /\ [][NextCheck]_vars

-----------------------------------------------------------------------------
(* validate_file: the log area.                                            *)

\* log_base_dir/run_id/model_name/instance_id/...
P_TEST == "base/run/golden/id/test_output.log"
P_RUN == "base/run/golden/id/run_instance.log"
P_DIFF == "base/run/golden/id/patch.diff"
\* the flattened and the self.log_dir candidates
B_RUN_FLAT == "base/run/id.test_output.log"
B_FLAT == "base/id.test_output.log"
L_TEST == "logs/run/golden/id/test_output.log"
L_RUN_FLAT == "logs/run/id.test_output.log"
L_FLAT == "logs/id.test_output.log"

\* the alternatives without run_instance.log
alt_paths_without_run_instance ==
    <<P_TEST, B_RUN_FLAT, B_FLAT, L_TEST, L_RUN_FLAT, L_FLAT>>

\* lines 462-473
alt_paths == <<P_TEST, P_RUN, B_RUN_FLAT, B_FLAT, L_TEST, L_RUN_FLAT, L_FLAT>>

LogPaths == {P_TEST, P_RUN, P_DIFF, B_RUN_FLAT, B_FLAT, L_TEST, L_RUN_FLAT, L_FLAT}

\* os.listdir of the primary log directory
Basename(p) ==
    CASE p = P_TEST -> "test_output.log"
      [] p = P_RUN -> "run_instance.log"
      [] OTHER -> "patch.diff"

listdir(fs) ==
    SelectSeq(<<P_DIFF, P_RUN, P_TEST>>, LAMBDA p : p \in fs)

RECURSIVE BasenamesOf(_)
BasenamesOf(ps) ==
    IF ps = <<>> THEN <<>> ELSE <<Basename(Head(ps))>> \o BasenamesOf(Tail(ps))

\* the first alternative path that exists, "" when none does (lines 474-479)
RECURSIVE FirstExisting(_, _)
FirstExisting(fs, i) ==
    IF i > Len(alt_paths) THEN ""
    ELSE IF alt_paths[i] \in fs THEN alt_paths[i]
    ELSE FirstExisting(fs, i + 1)

\* the log to grade, "" when none is found (lines 455-479)
Locate(fs) == IF P_TEST \in fs THEN P_TEST ELSE FirstExisting(fs, 1)

\* `kw in line` for the lines a run_instance.log may hold
HasSub(line, kw) ==
    CASE kw = "BuildImageError" -> line = "BuildImageError: x"
      [] kw = "Error building image" -> line = "Error building image y"
      [] kw = "Error" -> line \in {"BuildImageError: x", "Error building image y"}
      [] kw = "Exception" -> line = "Exception: z"
      [] kw = "Failed" -> line = "Failed 404"
      [] kw = "404" -> line = "Failed 404"
      [] OTHER -> FALSE

\* `kw in log_content`
InContent(lines, kw) == \E i \in 1..Len(lines) : HasSub(lines[i], kw)

RunLogs ==
    {<<>>, <<"ok">>, <<"ok", "BuildImageError: x">>, <<"Error building image y">>,
     <<"Exception: z", "Failed 404">>}

\* the error lines quoted from run_instance.log (lines 488-503)
ErrorDetails(e) ==
    IF P_RUN \in e.fs /\ e.readable
       /\ (InContent(e.runlog, "Error") \/ InContent(e.runlog, "Exception"))
    THEN SelectSeq(e.runlog,
                   LAMBDA l : \E kw \in {"Error", "Exception", "Failed", "404"} : HasSub(l, kw))
    ELSE <<>>

RunErrorText == "harness exception text"

\* NotFoundMsg leaving the harness exception out
NotFoundMsg_without_run_error(e) ==
    Msg("Evaluation log file not found. Expected at: {}", NoPath,
        <<"expected", P_TEST, "tried">> \o alt_paths
            \o <<"files">> \o BasenamesOf(listdir(e.fs))
            \o <<"errors">> \o ErrorDetails(e)
            \o <<"run_error">>,
        "")

\* the message of the 'log file not found' ExecutionError (lines 510-522)
NotFoundMsg(e) ==
    Msg("Evaluation log file not found. Expected at: {}", NoPath,
        <<"expected", P_TEST, "tried">> \o alt_paths
            \o <<"files">> \o BasenamesOf(listdir(e.fs))
            \o <<"errors">> \o ErrorDetails(e)
            \o <<"run_error">> \o (IF e.run_error THEN <<RunErrorText>> ELSE <<>>),
        "")

\* build_failed (lines 535-551)
BuildFailed(e) ==
    /\ P_RUN \in e.fs
    /\ e.readable
    /\ (InContent(e.runlog, "BuildImageError") \/ InContent(e.runlog, "Error building image"))

-----------------------------------------------------------------------------
(* validate_file: errors and the returned ValidationResult.                *)

PlainErr(kind, msg) == ErrRec(kind, msg, "", <<>>, "", <<>>)

\* a ValidationResult whose success leaves the per-test diagnostics out
ValidationResult_without_diagnostics(iid, errs, evres) ==
    [returned |-> TRUE, instance_id |-> iid, file_path |-> file.path,
     success |-> \A i \in 1..Len(errs) : errs[i].test # "",
     errors |-> errs, warnings |-> <<>>, evaluation_results |-> evres]

\* the outer handler of the evaluation block (lines 605-609) wraps whatever
\* was raised inside it
Wrapped(iid, inner) ==
    Msg("Docker evaluation failed for {}: {}", NoPath, <<iid>> \o inner.names, inner.tmpl)

\* an exception of the evaluation block passed on as it was raised, without
\* the wrapping of lines 605-609
ExecErr_unwrapped(iid, inner) == PlainErr("Unexpected error", inner)

ExecErr(iid, inner) == PlainErr("Execution error", Wrapped(iid, inner))

ValidationResult(iid, errs, evres) ==
    [returned |-> TRUE, instance_id |-> iid, file_path |-> file.path,
     success |-> Len(errs) = 0, errors |-> errs, warnings |-> <<>>,
     evaluation_results |-> evres]

\* lines 624-641: leave validate_file with the errors collected
Finish(iid, errs, evres) ==
    /\ errors' = errs
    /\ result' = ValidationResult(iid, errs, evres)
    /\ pc' = "done"

\* the status test of the all-UNKNOWN check (lines 582-587)
IsUnknown(e) ==
    IF e.t = "dict"
    THEN upper(pystr(dget(e.d, "status", JStr(<<>>)))) = S_UNKNOWN
    ELSE upper(pystr(JV(e.t, e.s))) = S_UNKNOWN

\* the all-UNKNOWN check without the test for an empty report
AllUnknown_also_empty(m) ==
    \A k \in TestKeys : m[k] # AbsentEntry => IsUnknown(m[k])

\* lines 580-589
AllUnknown(m) ==
    /\ nonempty(m)
    /\ \A k \in TestKeys : m[k] # AbsentEntry => IsUnknown(m[k])

-----------------------------------------------------------------------------
(* validate_file: the files, the log areas and the reports enumerated.     *)

\* patches of each kind: good, empty, blank, and not a string
FilePatches == PatchSamples \cup {JNull, JNum(<<"5">>), JArr(<<"d">>)}

SpecFile ==
    \/ BrokenFile
    \/ NonObjectFile
    \/ ObjectByKeys
    \/ \E p \in {<<<<"#7">>, <<"t1">>>>, <<<<"t1">>, <<"#[]">>>>} :
          file = File("ok", "object", DataPoint(p[1], p[2]))
    \/ \E patch \in FilePatches :
          file = File("ok", "object",
                      Fields(RequiredSet, json_dumps(<<"t1">>), json_dumps(<<"t2">>), patch))
    \* a record that names its instance "unknown"
    \/ file = File("ok", "object",
                   [DataPoint(<<"t1">>, <<"t2">>) EXCEPT !["instance_id"] = JStr(<<"unknown">>)])

\* what load_swebench_dataset may do: return the instance, return nothing,
\* raise ValueError naming missing ids, raise another ValueError, raise
\* anything else, or not be importable
Lookups == {"found", "empty", "missing_ids", "value_error", "error", "unavailable"}

LookupMsg(o, iid) ==
    CASE o = "unavailable" -> Msg("load_swebench_dataset not available.", NoPath, <<>>, "")
      [] o = "missing_ids" ->
            Msg("Instance {} not found in SWE-bench dataset {}.", NoPath, <<iid>>, "")
      [] o = "empty" -> Msg("Instance {} not found in dataset {}.", NoPath, <<iid>>, "")
      [] o = "value_error" -> Msg("ValueError text", NoPath, <<>>, "")
      [] OTHER -> Msg("lookup exception text", NoPath, <<>>, "")

FsStates == {fs \in SUBSET LogPaths : Cardinality(fs) <= MaxLogFiles}

ReportEntries ==
    {AbsentEntry, EmptyDict,
     ScalarEntry(JStr(S_FAIL)), ScalarEntry(JStr(chars_unknown)),
     DictEntry([NoDetail EXCEPT !["status"] = JStr(S_PASS)]),
     DictEntry([NoDetail EXCEPT !["status"] = JStr(S_UNKNOWN),
                                !["stderr"] = JStr(<<"e", "1">>)])}

Reports == {Mapping(e1, e2) : e1 \in ReportEntries, e2 \in ReportEntries}

\* the messages of the errors raised inside the evaluation block
SpecRaisedMsg == Msg("make_test_spec exception text", NoPath, <<>>, "")
BuildFailedMsg(iid) == Msg("Docker image build failed for {}.", NoPath, <<iid, P_RUN>>, "")
GradeRaisedMsg == Msg("get_eval_report exception text", NoPath, <<>>, "")
AllUnknownMsg(iid) ==
    Msg("All tests returned UNKNOWN status for {}.", NoPath, <<iid, P_RUN>>, "")

-----------------------------------------------------------------------------
(* validate_file, one action per stretch between two collaborator calls.   *)

Init ==
    /\ batch = NoBatch
    /\ pc = "start"
    /\ SpecFile
    /\ loaded = NoLoaded
    /\ data_point = NoData
    /\ instance_id = "unknown"
    /\ errors = <<>>
    /\ evaluation_results = NoRaw
    /\ checked = NoChecked
    /\ env = NoEnv
    /\ calls = <<>>
    /\ result = NoResult

\* the error kind the outer handlers give an exception (lines 624-631)
Classify(exc) ==
    CASE exc = "StructuralError" -> "Structural error"
      [] exc = "ExecutionError" -> "Execution error"
      [] OTHER -> "Unexpected error"

\* lines 350-353
Load ==
    /\ UNCHANGED batch
    /\ pc = "start"
    /\ LET r == load_data_point(file) IN
          /\ loaded' = r
          /\ IF r.exc = "none"
             THEN /\ data_point' = r.ret
                  /\ instance_id' = idOf(r.ret)
                  /\ pc' = "lookup"
                  /\ UNCHANGED <<errors, result>>
             ELSE /\ Finish("unknown", <<PlainErr(Classify(r.exc), r.msg)>>, NoRaw)
                  /\ UNCHANGED <<data_point, instance_id>>
    /\ UNCHANGED <<file, evaluation_results, checked, env, calls>>

\* Lookup without the test for an empty result
Lookup_accepting_empty ==
    /\ UNCHANGED batch
    /\ pc = "lookup"
    /\ \E o \in Lookups :
          /\ env' = [env EXCEPT !.lookup = o]
          /\ calls' = IF o = "unavailable" THEN calls
                      ELSE Append(calls, "load_swebench_dataset")
          /\ IF o \in {"found", "empty"}
             THEN pc' = "submit" /\ UNCHANGED <<errors, result>>
             ELSE Finish(instance_id,
                         <<ExecErr(instance_id, LookupMsg(o, instance_id))>>, NoRaw)
    /\ UNCHANGED <<file, loaded, data_point, instance_id, evaluation_results, checked>>

\* lines 362-396
Lookup ==
    /\ UNCHANGED batch
    /\ pc = "lookup"
    /\ \E o \in Lookups :
          /\ env' = [env EXCEPT !.lookup = o]
          /\ calls' = IF o = "unavailable" THEN calls
                      ELSE Append(calls, "load_swebench_dataset")
          /\ IF o = "found"
             THEN pc' = "submit" /\ UNCHANGED <<errors, result>>
             ELSE Finish(instance_id,
                         <<ExecErr(instance_id, LookupMsg(o, instance_id))>>, NoRaw)
    /\ UNCHANGED <<file, loaded, data_point, instance_id, evaluation_results, checked>>

\* Submit ending the file with the harness exception when the call raises
Submit_abort_on_raise ==
    /\ UNCHANGED batch
    /\ pc = "submit"
    /\ calls' = Append(calls, "run_evaluation")
    /\ \E raised \in BOOLEAN, fs \in FsStates, rl \in RunLogs, rd \in BOOLEAN :
          /\ (P_RUN \notin fs \/ ~rd) => rl = <<>>
          /\ P_RUN \notin fs => rd
          /\ env' = [env EXCEPT !.run_error = raised, !.fs = fs,
                                !.runlog = rl, !.readable = rd]
          /\ IF raised
             THEN Finish(instance_id,
                         <<ExecErr(instance_id, Msg("{}", NoPath, <<RunErrorText>>, ""))>>,
                         NoRaw)
             ELSE pc' = "locate" /\ UNCHANGED <<errors, result>>
    /\ UNCHANGED <<file, loaded, data_point, instance_id, evaluation_results, checked>>

\* lines 398-435: the harness call returns or raises; either way the log
\* area then holds some set of files
Submit ==
    /\ UNCHANGED batch
    /\ pc = "submit"
    /\ calls' = Append(calls, "run_evaluation")
    /\ \E raised \in BOOLEAN, fs \in FsStates, rl \in RunLogs, rd \in BOOLEAN :
          /\ (P_RUN \notin fs \/ ~rd) => rl = <<>>
          /\ P_RUN \notin fs => rd
          /\ env' = [env EXCEPT !.run_error = raised, !.fs = fs,
                                !.runlog = rl, !.readable = rd]
    /\ pc' = "locate"
    /\ UNCHANGED <<file, loaded, data_point, instance_id, errors,
                   evaluation_results, checked, result>>

\* lines 437-532: log discovery, then make_test_spec
LocateLog ==
    /\ UNCHANGED batch
    /\ pc = "locate"
    /\ IF Locate(env.fs) = ""
       THEN /\ Finish(instance_id, <<ExecErr(instance_id, NotFoundMsg(env))>>, NoRaw)
            /\ UNCHANGED <<env, calls>>
       ELSE /\ calls' = Append(calls, "make_test_spec")
            /\ \E spec_ok \in BOOLEAN :
                  /\ env' = [env EXCEPT !.test_log_path = Locate(env.fs),
                                        !.spec = IF spec_ok THEN "ok" ELSE "raised"]
                  /\ IF spec_ok
                     THEN pc' = "scan" /\ UNCHANGED <<errors, result>>
                     ELSE Finish(instance_id,
                                 <<ExecErr(instance_id, SpecRaisedMsg)>>, NoRaw)
    /\ UNCHANGED <<file, loaded, data_point, instance_id, evaluation_results, checked>>

\* ScanBuildLog recording the build failure and going on to grade
ScanBuildLog_keeps_going ==
    /\ UNCHANGED batch
    /\ pc = "scan"
    /\ IF BuildFailed(env)
       THEN /\ errors' = <<ExecErr(instance_id, BuildFailedMsg(instance_id))>>
            /\ pc' = "grade"
            /\ UNCHANGED result
       ELSE pc' = "grade" /\ UNCHANGED <<errors, result>>
    /\ UNCHANGED <<file, loaded, data_point, instance_id, evaluation_results,
                   checked, env, calls>>

\* lines 534-565
ScanBuildLog ==
    /\ UNCHANGED batch
    /\ pc = "scan"
    /\ IF BuildFailed(env)
       THEN Finish(instance_id, <<ExecErr(instance_id, BuildFailedMsg(instance_id))>>, NoRaw)
       ELSE pc' = "grade" /\ UNCHANGED <<errors, result>>
    /\ UNCHANGED <<file, loaded, data_point, instance_id, evaluation_results,
                   checked, env, calls>>

\* Grade handing the report to the checker under a key that is not the
\* instance id
Grade_under_other_key ==
    /\ UNCHANGED batch
    /\ pc = "grade"
    /\ calls' = Append(calls, "get_eval_report")
    /\ \E g \in {"raised", "no_tests", "tests"}, m \in Reports :
          /\ g # "tests" => m = EmptyMapping
          /\ env' = [env EXCEPT !.grade = g, !.report = m]
          /\ IF g = "raised"
             THEN /\ Finish(instance_id, <<ExecErr(instance_id, GradeRaisedMsg)>>, NoRaw)
                  /\ UNCHANGED evaluation_results
             ELSE IF AllUnknown(m)
             THEN /\ Finish(instance_id,
                            <<ExecErr(instance_id, AllUnknownMsg(instance_id))>>, NoRaw)
                  /\ UNCHANGED evaluation_results
             ELSE /\ evaluation_results' = Direct("i2", m)
                  /\ pc' = "check"
                  /\ UNCHANGED <<errors, result>>
    /\ UNCHANGED <<file, loaded, data_point, instance_id, checked>>

\* lines 567-603: get_eval_report, then the all-UNKNOWN check
Grade ==
    /\ UNCHANGED batch
    /\ pc = "grade"
    /\ calls' = Append(calls, "get_eval_report")
    /\ \E g \in {"raised", "no_tests", "tests"}, m \in Reports :
          /\ g # "tests" => m = EmptyMapping
          /\ env' = [env EXCEPT !.grade = g, !.report = m]
          /\ IF g = "raised"
             THEN /\ Finish(instance_id, <<ExecErr(instance_id, GradeRaisedMsg)>>, NoRaw)
                  /\ UNCHANGED evaluation_results
             ELSE IF AllUnknown(m)
             THEN /\ Finish(instance_id,
                            <<ExecErr(instance_id, AllUnknownMsg(instance_id))>>, NoRaw)
                  /\ UNCHANGED evaluation_results
             ELSE /\ evaluation_results' = Direct(instance_id, m)
                  /\ pc' = "check"
                  /\ UNCHANGED <<errors, result>>
    /\ UNCHANGED <<file, loaded, data_point, instance_id, checked>>

\* CheckOutcome raising an ExecutionError after it has recorded the
\* diagnostics of a failed check
CheckOutcome_raise_after_diagnostics ==
    /\ UNCHANGED batch
    /\ pc = "check"
    /\ LET r == validate_evaluation_results(data_point, evaluation_results) IN
          /\ checked' = r
          /\ IF r.exc = "none"
             THEN Finish(instance_id,
                         IF r.errors = <<>> THEN errors
                         ELSE Append(errors \o r.errors,
                                     PlainErr("Execution error",
                                              Msg("Validation failed", NoPath, <<>>, ""))),
                         evaluation_results)
             ELSE Finish(instance_id,
                         <<PlainErr(Classify(r.exc), Msg(r.exc, NoPath, <<>>, ""))>>,
                         evaluation_results)
    /\ UNCHANGED <<file, loaded, data_point, instance_id, evaluation_results, env, calls>>

\* lines 611-641
CheckOutcome ==
    /\ UNCHANGED batch
    /\ pc = "check"
    /\ LET r == validate_evaluation_results(data_point, evaluation_results) IN
          /\ checked' = r
          /\ IF r.exc = "none"
             THEN Finish(instance_id, errors \o r.errors, evaluation_results)
             ELSE Finish(instance_id,
                         <<PlainErr(Classify(r.exc), Msg(r.exc, NoPath, <<>>, ""))>>,
                         evaluation_results)
    /\ UNCHANGED <<file, loaded, data_point, instance_id, evaluation_results, env, calls>>

\* validate_file as a function of the file and of what the collaborators
\* did (e): the instance id, errors and evaluation_results it returns with
Outcome(iid, errs, evres) == [instance_id |-> iid, errors |-> errs, evaluation_results |-> evres]

\* lines 601-622: the outcome check of a graded report
check_outcome(dp, iid, report) ==
    LET c == validate_evaluation_results(dp, Direct(iid, report)) IN
    IF c.exc # "none"
    THEN Outcome(iid, <<PlainErr(Classify(c.exc), Msg(c.exc, NoPath, <<>>, ""))>>,
                 Direct(iid, report))
    ELSE Outcome(iid, c.errors, Direct(iid, report))

\* lines 353-603: the evaluation of a loaded data point
evaluate(dp, e) ==
    LET iid == idOf(dp) IN
    IF e.lookup # "found"
    THEN Outcome(iid, <<ExecErr(iid, LookupMsg(e.lookup, iid))>>, NoRaw)
    ELSE IF Locate(e.fs) = ""
    THEN Outcome(iid, <<ExecErr(iid, NotFoundMsg(e))>>, NoRaw)
    ELSE IF e.spec = "raised"
    THEN Outcome(iid, <<ExecErr(iid, SpecRaisedMsg)>>, NoRaw)
    ELSE IF BuildFailed(e)
    THEN Outcome(iid, <<ExecErr(iid, BuildFailedMsg(iid))>>, NoRaw)
    ELSE IF e.grade = "raised"
    THEN Outcome(iid, <<ExecErr(iid, GradeRaisedMsg)>>, NoRaw)
    ELSE IF AllUnknown(e.report)
    THEN Outcome(iid, <<ExecErr(iid, AllUnknownMsg(iid))>>, NoRaw)
    ELSE check_outcome(dp, iid, e.report)

validate_file(f, e) ==
    LET r == load_data_point(f) IN
    IF r.exc # "none"
    THEN Outcome("unknown", <<PlainErr(Classify(r.exc), r.msg)>>, NoRaw)
    ELSE evaluate(r.ret, e)

Next ==
    \/ Load
    \/ Lookup
    \/ Submit
    \/ LocateLog
    \/ ScanBuildLog
    \/ Grade
    \/ CheckOutcome

Spec == Init /\ [][Next]_vars

-----------------------------------------------------------------------------
(* The batch drivers: the loop of cli.main and validate_directory.         *)

\* the directory holds the files 1.json .. MaxFiles.json
FileNames == 1..MaxFiles

\* a path argument: a JSON file of the directory, a file with another
\* suffix, the directory, an empty directory, a path that is neither a file
\* nor a directory, a path that does not exist
JsonPath(n) == [kind |-> "json", n |-> n]
OtherPath == [kind |-> "other", n |-> 0]
DirPath == [kind |-> "dir", n |-> 0]
EmptyDirPath == [kind |-> "emptydir", n |-> 0]
SpecialPath == [kind |-> "special", n |-> 0]
MissingPath == [kind |-> "missing", n |-> 0]

\* the content of a file of the directory, by its kind
ContentOf(kind) ==
    IF kind = "structural"
    THEN File("ok", "object",
              Fields(RequiredSet \ {"patch"}, json_dumps(<<"t1">>), json_dumps(<<"t2">>),
                     JStr(<<"d">>)))
    ELSE File("ok", "object",
              Fields(RequiredSet, json_dumps(<<"t1">>), json_dumps(<<"t2">>), JStr(<<"d">>)))

\* what the collaborators may do for one file of a batch: a run whose tests
\* pass, a run with a failing test, a harness call that raises and leaves
\* no log
PassEntry == DictEntry([NoDetail EXCEPT !["status"] = JStr(S_PASS)])
RunFound == [NoEnv EXCEPT !.lookup = "found", !.fs = {P_TEST}, !.spec = "ok", !.grade = "tests"]
BatchRuns ==
    {[RunFound EXCEPT !.report = Mapping(PassEntry, PassEntry)],
     [RunFound EXCEPT !.report = Mapping(ScalarEntry(JStr(S_FAIL)), PassEntry)],
     [NoEnv EXCEPT !.lookup = "found", !.run_error = TRUE]}

\* path.glob("*.json"): the JSON files of a directory, in the order the
\* file system lists them
glob(path, listing) == IF path.kind = "dir" THEN listing ELSE <<>>

\* sorted(...)
sorted(seq) == SortSeq(seq, LAMBDA a, b : a < b)

\* cli.py lines 103-117: the files collected from the path arguments from
\* position i on; exit is set when a path is neither a file nor a directory
RECURSIVE collect(_, _, _, _)
collect(paths, listing, i, acc) ==
    IF i > Len(paths) THEN [exit |-> FALSE, files |-> acc]
    ELSE IF paths[i].kind = "json" THEN collect(paths, listing, i + 1, Append(acc, paths[i].n))
    ELSE IF paths[i].kind = "other" THEN collect(paths, listing, i + 1, acc)
    ELSE IF paths[i].kind \in {"dir", "emptydir"}
    THEN collect(paths, listing, i + 1, acc \o sorted(glob(paths[i], listing)))
    ELSE [exit |-> TRUE, files |-> acc]

\* validator.py line 412: the run id of a validation
run_id(iid) == <<"validation-", iid>>

\* validator.py lines 455-457, 482: the primary log directory of a run
log_dir(iid) == <<"base", run_id(iid), "golden", iid>>

\* the ValidationResult validate_file returns for the file n.json
BatchResult(n, o) ==
    [file_path |-> n, instance_id |-> o.instance_id, success |-> Len(o.errors) = 0,
     errors |-> o.errors, evaluation_results |-> o.evaluation_results]

\* the runs the collaborators may make for a file: none when it does not load
RunsFor(f) == IF load_data_point(f).exc = "none" THEN BatchRuns ELSE {NoEnv}

\* the path arguments of a batch
PathLists ==
    {<<DirPath>>, <<EmptyDirPath>>, <<OtherPath>>, <<SpecialPath>>,
     <<JsonPath(MaxFiles), DirPath>>}
        \cup {<<JsonPath(n)>> : n \in FileNames}
        \cup {<<JsonPath(n), JsonPath(m)>> : n \in FileNames, m \in FileNames}
        \cup {<<OtherPath, JsonPath(n)>> : n \in FileNames}

\* the orders a directory may list its files in
Listings == {[i \in FileNames |-> i], [i \in FileNames |-> MaxFiles + 1 - i]}

InitBatch ==
    /\ file = File("missing", "object", NoData)
    /\ loaded = NoLoaded
    /\ data_point = NoData
    /\ instance_id = "unknown"
    /\ errors = <<>>
    /\ evaluation_results = NoRaw
    /\ checked = NoChecked
    /\ env = NoEnv
    /\ calls = <<>>
    /\ result = NoResult
    /\ \E c \in BOOLEAN, listing \in Listings,
          disk \in [FileNames -> {"structural", "wellformed"}] :
          \/ \E paths \in PathLists :
                batch = [NoBatch EXCEPT !.driver = "cli", !.continue_on_error = c,
                                        !.paths = paths, !.glob = listing, !.disk = disk]
          \/ \E d \in {DirPath, EmptyDirPath, MissingPath} :
                batch = [NoBatch EXCEPT !.driver = "validate_directory",
                                        !.continue_on_error = c, !.paths = <<d>>,
                                        !.glob = listing, !.disk = disk]
    /\ pc = IF batch.driver = "cli" THEN "setup" ELSE "collect"

\* cli.py lines 85-100: the configuration and the validator are built; the
\* constructor creates the log directory and may raise, which the handler of
\* lines 213-219 turns into exit code 1
CliSetup ==
    /\ pc = "setup"
    /\ batch.driver = "cli"
    /\ \E raised \in BOOLEAN :
          IF raised
          THEN /\ batch' = [batch EXCEPT !.exit = "1"]
               /\ pc' = "exited"
          ELSE /\ pc' = "collect"
               /\ UNCHANGED batch
    /\ UNCHANGED <<file, loaded, data_point, instance_id, errors,
                   evaluation_results, checked, env, calls, result>>

\* cli.py lines 103-121
CliCollect ==
    /\ pc = "collect"
    /\ batch.driver = "cli"
    /\ LET c == collect(batch.paths, batch.glob, 1, <<>>) IN
          IF c.exit \/ c.files = <<>>
          THEN /\ batch' = [batch EXCEPT !.exit = "1"]
               /\ pc' = "exited"
          ELSE /\ batch' = [batch EXCEPT !.files_to_validate = c.files]
               /\ pc' = "loop"
    /\ UNCHANGED <<file, loaded, data_point, instance_id, errors,
                   evaluation_results, checked, env, calls, result>>

\* cli.py lines 129-150 leaving the loop on any failure
CliValidateNext_break_on_failure ==
    /\ pc = "loop"
    /\ batch.driver = "cli"
    /\ LET n == batch.files_to_validate[Len(batch.results) + 1]
           f == ContentOf(batch.disk[n])
       IN \E e \in RunsFor(f) :
             LET r == BatchResult(n, validate_file(f, e)) IN
             /\ batch' = [batch EXCEPT !.results = Append(@, r), !.runs = Append(@, e)]
             /\ pc' = IF ~r.success \/ Len(batch.results) + 1 = Len(batch.files_to_validate)
                      THEN "report" ELSE "loop"
    /\ UNCHANGED <<file, loaded, data_point, instance_id, errors,
                   evaluation_results, checked, env, calls, result>>

\* cli.py lines 129-150 without the break
CliValidateNext_no_break ==
    /\ pc = "loop"
    /\ batch.driver = "cli"
    /\ LET n == batch.files_to_validate[Len(batch.results) + 1]
           f == ContentOf(batch.disk[n])
       IN \E e \in RunsFor(f) :
             LET r == BatchResult(n, validate_file(f, e)) IN
             /\ batch' = [batch EXCEPT !.results = Append(@, r), !.runs = Append(@, e)]
             /\ pc' = IF Len(batch.results) + 1 = Len(batch.files_to_validate)
                      THEN "report" ELSE "loop"
    /\ UNCHANGED <<file, loaded, data_point, instance_id, errors,
                   evaluation_results, checked, env, calls, result>>

\* cli.py lines 129-150: one pass of the loop: validate the next file,
\* append its result, and leave the loop on a failure unless
\* continue_on_error is set
CliValidateNext ==
    /\ pc = "loop"
    /\ batch.driver = "cli"
    /\ LET n == batch.files_to_validate[Len(batch.results) + 1]
           f == ContentOf(batch.disk[n])
       IN \E e \in RunsFor(f) :
             LET r == BatchResult(n, validate_file(f, e)) IN
             /\ batch' = [batch EXCEPT !.results = Append(@, r), !.runs = Append(@, e)]
             /\ pc' = IF (~r.success /\ ~batch.continue_on_error)
                         \/ Len(batch.results) + 1 = Len(batch.files_to_validate)
                      THEN "report" ELSE "loop"
    /\ UNCHANGED <<file, loaded, data_point, instance_id, errors,
                   evaluation_results, checked, env, calls, result>>

\* CliExit taking the exit code from the last result alone
CliExit_last_result ==
    /\ pc = "report"
    /\ batch' = [batch EXCEPT !.exit =
                    IF batch.results[Len(batch.results)].success THEN "0" ELSE "1"]
    /\ pc' = "exited"
    /\ UNCHANGED <<file, loaded, data_point, instance_id, errors,
                   evaluation_results, checked, env, calls, result>>

\* cli.py lines 152-207
CliExit ==
    /\ pc = "report"
    /\ batch' = [batch EXCEPT !.exit =
                    IF \A i \in 1..Len(batch.results) : batch.results[i].success
                    THEN "0" ELSE "1"]
    /\ pc' = "exited"
    /\ UNCHANGED <<file, loaded, data_point, instance_id, errors,
                   evaluation_results, checked, env, calls, result>>

\* DirCollect taking the files in the order glob lists them
DirCollect_unsorted ==
    /\ pc = "collect"
    /\ batch.driver = "validate_directory"
    /\ LET directory == batch.paths[1]
           json_files == glob(directory, batch.glob)
       IN IF directory.kind = "missing"
          THEN /\ batch' = [batch EXCEPT !.exit = "FileNotFoundError"]
               /\ pc' = "raised"
          ELSE IF json_files = <<>>
          THEN /\ batch' = [batch EXCEPT !.exit = "returned"]
               /\ pc' = "returned"
          ELSE /\ batch' = [batch EXCEPT !.files_to_validate = json_files]
               /\ pc' = "loop"
    /\ UNCHANGED <<file, loaded, data_point, instance_id, errors,
                   evaluation_results, checked, env, calls, result>>

\* validator.py lines 655-663
DirCollect ==
    /\ pc = "collect"
    /\ batch.driver = "validate_directory"
    /\ LET directory == batch.paths[1]
           json_files == sorted(glob(directory, batch.glob))
       IN IF directory.kind = "missing"
          THEN /\ batch' = [batch EXCEPT !.exit = "FileNotFoundError"]
               /\ pc' = "raised"
          ELSE IF json_files = <<>>
          THEN /\ batch' = [batch EXCEPT !.exit = "returned"]
               /\ pc' = "returned"
          ELSE /\ batch' = [batch EXCEPT !.files_to_validate = json_files]
               /\ pc' = "loop"
    /\ UNCHANGED <<file, loaded, data_point, instance_id, errors,
                   evaluation_results, checked, env, calls, result>>

\* validator.py lines 665-677: the same loop, then return results
DirValidateNext ==
    /\ pc = "loop"
    /\ batch.driver = "validate_directory"
    /\ LET n == batch.files_to_validate[Len(batch.results) + 1]
           f == ContentOf(batch.disk[n])
       IN \E e \in RunsFor(f) :
             LET r == BatchResult(n, validate_file(f, e)) IN
             /\ batch' = [batch EXCEPT !.results = Append(@, r), !.runs = Append(@, e)]
             /\ pc' = IF (~r.success /\ ~batch.continue_on_error)
                         \/ Len(batch.results) + 1 = Len(batch.files_to_validate)
                      THEN "returned" ELSE "loop"
    /\ UNCHANGED <<file, loaded, data_point, instance_id, errors,
                   evaluation_results, checked, env, calls, result>>

\* CliInterrupt with validate_file catching the interrupt as it catches
\* Exception: the file gets a failed result and the loop goes on
CliInterrupt_caught_in_file ==
    /\ pc \in {"setup", "collect", "loop", "report"}
    /\ batch.driver = "cli"
    /\ \E inside \in BOOLEAN :
          /\ inside => pc = "loop"
          /\ IF inside
             THEN LET n == batch.files_to_validate[Len(batch.results) + 1]
                      r == BatchResult(n, Outcome("unknown",
                              <<PlainErr("Unexpected error",
                                         Msg("KeyboardInterrupt", NoPath, <<>>, ""))>>, NoRaw))
                  IN /\ batch' = [batch EXCEPT !.interrupted = TRUE, !.in_file = n,
                                               !.results = Append(@, r),
                                               !.runs = Append(@, NoEnv)]
                     /\ pc' = IF Len(batch.results) + 1 = Len(batch.files_to_validate)
                              THEN "report" ELSE "loop"
             ELSE /\ batch' = [batch EXCEPT !.interrupted = TRUE]
                  /\ pc' = "interrupted"
    /\ UNCHANGED <<file, loaded, data_point, instance_id, errors,
                   evaluation_results, checked, env, calls, result>>

\* a KeyboardInterrupt raised anywhere inside the try block of main, also
\* inside validate_file, whose handlers (validator.py lines 624-631) catch
\* Exception only: the file being validated, if any, gets no result
CliInterrupt ==
    /\ pc \in {"setup", "collect", "loop", "report"}
    /\ batch.driver = "cli"
    /\ \E inside \in BOOLEAN :
          /\ inside => pc = "loop"
          /\ batch' = [batch EXCEPT
                          !.interrupted = TRUE,
                          !.in_file = IF inside
                                      THEN batch.files_to_validate[Len(batch.results) + 1]
                                      ELSE 0]
    /\ pc' = "interrupted"
    /\ UNCHANGED <<file, loaded, data_point, instance_id, errors,
                   evaluation_results, checked, env, calls, result>>

\* cli.py lines 210-212
CliOnInterrupt ==
    /\ pc = "interrupted"
    /\ batch' = [batch EXCEPT !.exit = "130"]
    /\ pc' = "exited"
    /\ UNCHANGED <<file, loaded, data_point, instance_id, errors,
                   evaluation_results, checked, env, calls, result>>

\* the result standing for a file whose collaborator behaviour is not given
NoRun == BatchResult(0, Outcome("unknown", <<>>, NoRaw))

\* cli.py lines 128-150 as a function: the results of the loop over
\* files from position i on, runs[i] being what the collaborators do for
\* the i-th file
RECURSIVE main_loop(_, _, _, _, _, _)
main_loop(files, disk, runs, continue_on_error, i, results) ==
    IF i > Len(files) THEN results
    ELSE IF i > Len(runs) THEN Append(results, NoRun)
    ELSE LET r == BatchResult(files[i], validate_file(ContentOf(disk[files[i]]), runs[i])) IN
         IF ~r.success /\ ~continue_on_error THEN Append(results, r)
         ELSE main_loop(files, disk, runs, continue_on_error, i + 1, Append(results, r))

\* cli.py lines 103-150 as a function of the path arguments
main_results(paths, listing, disk, runs, continue_on_error) ==
    LET c == collect(paths, listing, 1, <<>>) IN
    IF c.exit \/ c.files = <<>> THEN <<>>
    ELSE main_loop(c.files, disk, runs, continue_on_error, 1, <<>>)

\* validator.py lines 664-677 as a function
RECURSIVE directory_loop(_, _, _, _, _, _)
directory_loop(json_files, disk, runs, continue_on_error, i, results) ==
    IF i > Len(json_files) THEN results
    ELSE IF i > Len(runs) THEN Append(results, NoRun)
    ELSE LET result_i == BatchResult(json_files[i],
                            validate_file(ContentOf(disk[json_files[i]]), runs[i])) IN
         IF ~result_i.success /\ ~continue_on_error THEN Append(results, result_i)
         ELSE directory_loop(json_files, disk, runs, continue_on_error, i + 1,
                             Append(results, result_i))

\* validator.py lines 643-677 as a function of an existing directory
validate_directory(directory, listing, disk, runs, continue_on_error) ==
    LET json_files == sorted(glob(directory, listing)) IN
    IF json_files = <<>> THEN <<>>
    ELSE directory_loop(json_files, disk, runs, continue_on_error, 1, <<>>)

NextBatch ==
    \/ CliSetup
    \/ CliInterrupt
    \/ CliOnInterrupt
    \/ CliCollect
    \/ CliValidateNext
    \/ CliExit
    \/ DirCollect
    \/ DirValidateNext

SpecBatch == InitBatch /\ [][NextBatch]_vars

-----------------------------------------------------------------------------
(* Definitions the claims share.                                           *)

Range(seq) == {seq[i] : i \in 1..Len(seq)}

\* the required keys a parsed value lacks: all of them when it is no object
MissingKeys(f) ==
    SelectSeq(REQUIRED_FIELDS, LAMBDA k : f.top # "object" \/ f.data[k] = Absent)

IsObject(f) == f.io = "ok" /\ f.top = "object"

\* a string that decodes to an array
EncodedArray(v) == v.t = "str" /\ json_loads(v.s).ok /\ json_loads(v.s).v.t = "arr"

\* a string that is empty or all whitespace
BlankString(v) == v.t = "str" /\ \A i \in 1..Len(v.s) : v.s[i] = " "

\* the tests a data point's list field decodes to
TestsOf(dp, field) == json_loads(dp[field].s).v.s

IsStringElem(e) == e \notin {"#7", "#[]"}

\* the DataPoint invariant of the data model
DataPointInvariant(dp) ==
    /\ \A k \in RequiredSet : dp[k] # Absent
    /\ \A field \in {"FAIL_TO_PASS", "PASS_TO_PASS"} :
          /\ EncodedArray(dp[field])
          /\ \A e \in Range(TestsOf(dp, field)) : IsStringElem(e)
    /\ dp["patch"].t = "str"
    /\ ~BlankString(dp["patch"])

HasEntry(m, test) == test \in TestKeys /\ m[test] # AbsentEntry

\* the passing rule as the claims state it: the status of a scalar entry is
\* the scalar, that of a detail object the value under status, else under
\* result, else UNKNOWN; an entry that is missing counts as an empty object
ClaimStatus(m, test) ==
    LET e == IF HasEntry(m, test) THEN m[test] ELSE EmptyDict IN
    upper(pystr(IF e.t # "dict" THEN JV(e.t, e.s)
                ELSE IF e.d["status"] # Absent THEN e.d["status"]
                ELSE IF e.d["result"] # Absent THEN e.d["result"]
                ELSE JStr(S_UNKNOWN)))

ClaimPassing(m, test) == ClaimStatus(m, test) \in {S_PASS, S_PASSED, S_TRUE, S_ONE}

DiagKind(field) ==
    IF field = "FAIL_TO_PASS"
    THEN "FAIL_TO_PASS test '{}' did not pass. Status: {}"
    ELSE "PASS_TO_PASS test '{}' failed after patch. Status: {}"

\* the diagnostics of an errors list for one test of one list
DiagsFor(errs, field, test) ==
    {i \in 1..Len(errs) : errs[i].kind = DiagKind(field) /\ errs[i].test = test}

\* the resolution order as the spec states it
ClaimResolve(raw, id) ==
    LET direct == IF raw.ids[id].present THEN raw.ids[id].m ELSE EmptyMapping
        tests == IF raw.tests.present THEN raw.tests.m ELSE EmptyMapping
        results == IF raw.results.shape # "absent" /\ raw.results.items[id].present
                   THEN raw.results.items[id].m ELSE EmptyMapping
    IN IF nonempty(direct) THEN direct
       ELSE IF nonempty(tests) THEN tests
       ELSE results

-----------------------------------------------------------------------------
(* The claims.                                                             *)

\* C1 (as stated; fails): whenever validate_file's load step fails for one
\* of the stated causes, the result holds exactly one Structural error, no
\* collaborator was called and success is false.
C1_LoadFailureIsStructural ==
    (pc = "done" /\ loaded.exc \notin {"none", "unset"}
        /\ (file.io # "ok" \/ MissingKeys(file) # <<>>
            \/ ~EncodedArray(file.data["FAIL_TO_PASS"])
            \/ ~EncodedArray(file.data["PASS_TO_PASS"])
            \/ BlankString(file.data["patch"])))
    => /\ Len(result.errors) = 1
       /\ result.errors[1].kind = "Structural error"
       /\ calls = <<>>
       /\ ~result.success

\* C2 (as stated; fails): whenever the harness has been submitted to, the
\* loaded record satisfies the whole DataPoint invariant, string elements
\* included.
C2_SubmittedRecordIsValid ==
    "run_evaluation" \in Range(calls) => DataPointInvariant(data_point)

\* C3 (as stated; fails): for every parsed value lacking a required key,
\* load_data_point raises StructuralError and its message names exactly the
\* missing keys.
C3_MissingFieldsNamed ==
    (pc = "loaded" /\ file.io = "ok" /\ MissingKeys(file) # <<>>)
    => /\ loaded.exc = "StructuralError"
       /\ loaded.msg.names = MissingKeys(file)

\* C4: for every record whose patch is the empty string or only whitespace,
\* load_data_point raises StructuralError.
C4_BlankPatchIsStructural ==
    (pc = "loaded" /\ IsObject(file) /\ BlankString(file.data["patch"]))
    => loaded.exc = "StructuralError"

C4_Witness ==
    /\ pc = "loaded"
    /\ IsObject(file)
    /\ MissingKeys(file) = <<>>
    /\ EncodedArray(file.data["FAIL_TO_PASS"])
    /\ EncodedArray(file.data["PASS_TO_PASS"])
    /\ file.data["patch"] = JStr(<<" ">>)
    /\ loaded.exc = "StructuralError"
    /\ loaded.msg.tmpl = "Patch field is empty in {}"

\* C5: a record with a test list that is not a string, not valid JSON, or
\* does not decode to an array is refused with StructuralError; a record
\* whose two lists are string-encoded arrays is not refused for its lists
\* (and is returned when its patch is good).
C5_TestListsDoubleEncoded ==
    (pc = "loaded" /\ IsObject(file))
    => /\ (\E field \in {"FAIL_TO_PASS", "PASS_TO_PASS"} :
              file.data[field] # Absent /\ ~EncodedArray(file.data[field]))
          => loaded.exc = "StructuralError"
       /\ (MissingKeys(file) = <<>>
              /\ EncodedArray(file.data["FAIL_TO_PASS"])
              /\ EncodedArray(file.data["PASS_TO_PASS"]))
          => /\ Range(loaded.msg.names) \cap {"FAIL_TO_PASS", "PASS_TO_PASS"} = {}
             /\ (file.data["patch"].t = "str" /\ ~BlankString(file.data["patch"]))
                => loaded.exc = "none"

C5_Witness ==
    /\ pc = "loaded"
    /\ IsObject(file)
    /\ MissingKeys(file) = <<>>
    /\ file.data["FAIL_TO_PASS"] = JArr(<<"t1">>)
    /\ loaded.exc = "StructuralError"
    /\ loaded.msg.names = <<"FAIL_TO_PASS">>
    /\ loaded.msg.detail = "list"

C7_StructuralErrorsCarryPath ==
    (pc = "loaded" /\ loaded.exc = "StructuralError")
    => /\ loaded.msg.path = file.path
       /\ loaded.msg.tmpl # ""

\* C8: an expected test with no entry in the resolved results gets status
\* UNKNOWN and a diagnostic, and a result with success = true implies that
\* every expected test had an entry with a passing status.
C8_UnknownNeverSuccess ==
    /\ checked.exc = "none"
       => \A field \in {"FAIL_TO_PASS", "PASS_TO_PASS"} :
             \A test \in Range(TestsOf(data_point, field)) :
                ~HasEntry(checked.seen, test)
                => \E i \in DiagsFor(result.errors, field, test) :
                      result.errors[i].status = S_UNKNOWN
    /\ (pc = "done" /\ result.success)
       => /\ checked.exc = "none"
          /\ \A field \in {"FAIL_TO_PASS", "PASS_TO_PASS"} :
                \A test \in Range(TestsOf(data_point, field)) :
                   /\ HasEntry(env.report, test)
                   /\ ClaimPassing(env.report, test)

C8_Witness ==
    /\ pc = "done"
    /\ checked.exc = "none"
    /\ TestsOf(data_point, "FAIL_TO_PASS") = <<"t1">>
    /\ TestsOf(data_point, "PASS_TO_PASS") = <<"t2">>
    /\ HasEntry(env.report, "t1")
    /\ ClaimPassing(env.report, "t1")
    /\ ~HasEntry(env.report, "t2")
    /\ ~result.success
    /\ Len(result.errors) = 1
    /\ result.errors[1].test = "t2"
    /\ result.errors[1].status = S_UNKNOWN

\* C9 (as stated; fails): the checker reads the entry under the instance id,
\* if that is empty the value under "tests", if that is empty the value
\* under "results", as a mapping or as a list of per-instance records.
C9_ResolutionOrder ==
    (pc = "checked"
        /\ \A field \in {"FAIL_TO_PASS", "PASS_TO_PASS"} :
              \A test \in Range(TestsOf(data_point, field)) : ~unhashable(test))
    => /\ checked.exc = "none"
       /\ checked.seen = ClaimResolve(evaluation_results, idOf(data_point))

\* C10: a test of either list gets a diagnostic exactly when its status by
\* the stated rule is not one of PASS, PASSED, TRUE, 1, and the diagnostic
\* carries that status.
C10_PassingRule ==
    (pc = "checked" /\ checked.exc = "none")
    => \A field \in {"FAIL_TO_PASS", "PASS_TO_PASS"} :
          \A test \in Range(TestsOf(data_point, field)) :
             /\ ClaimPassing(checked.seen, test)
                <=> DiagsFor(checked.errors, field, test) = {}
             /\ \A i \in DiagsFor(checked.errors, field, test) :
                   checked.errors[i].status = ClaimStatus(checked.seen, test)

C10_Witness ==
    /\ pc = "checked"
    /\ checked.exc = "none"
    /\ TestsOf(data_point, "FAIL_TO_PASS") = <<"t1">>
    /\ TestsOf(data_point, "PASS_TO_PASS") = <<"t1">>
    /\ checked.seen["t1"].t = "dict"
    /\ checked.seen["t1"].d["status"] = Absent
    /\ checked.seen["t1"].d["result"] = JStr(chars_Passed)
    /\ checked.all_passed
    /\ checked.errors = <<>>

\* the tests of a list that do not pass by the stated rule, in list order,
\* each with the kind of diagnostic its list gives
ClaimDiags(m, dp, field) ==
    LET bad == SelectSeq(TestsOf(dp, field), LAMBDA t : ~ClaimPassing(m, t))
    IN [i \in 1..Len(bad) |-> <<DiagKind(field), bad[i]>>]

\* C11: the errors list the checker returns is one diagnostic for each
\* entry of FAIL_TO_PASS that does not pass, in list order, followed by one
\* for each entry of PASS_TO_PASS that does not pass, in list order, each
\* naming its test; a passing entry gets none.
C11_EveryFailureReported ==
    (pc = "checked" /\ checked.exc = "none")
    => [i \in 1..Len(checked.errors) |->
           <<checked.errors[i].kind, checked.errors[i].test>>]
       = ClaimDiags(checked.seen, data_point, "FAIL_TO_PASS")
            \o ClaimDiags(checked.seen, data_point, "PASS_TO_PASS")

C11_Witness ==
    /\ pc = "checked"
    /\ checked.exc = "none"
    /\ TestsOf(data_point, "FAIL_TO_PASS") = <<"t1", "t2">>
    /\ TestsOf(data_point, "PASS_TO_PASS") = <<"t2", "t1">>
    /\ ~ClaimPassing(checked.seen, "t1")
    /\ ~ClaimPassing(checked.seen, "t2")
    /\ Len(checked.errors) = 4
    /\ checked.errors[2].test = "t2"
    /\ checked.errors[3].test = "t2"
    /\ checked.errors[3].kind = DiagKind("PASS_TO_PASS")

\* C12: whenever the checker returns, its verdict is true exactly when its
\* errors list is empty, and every ValidationResult validate_file returns
\* has success true exactly when its errors list is empty.
C12_VerdictIsEmptiness ==
    /\ checked.exc = "none" => (checked.all_passed <=> checked.errors = <<>>)
    /\ result.returned => (result.success <=> result.errors = <<>>)

C12_Witness ==
    /\ pc = "done"
    /\ checked.exc = "none"
    /\ ~checked.all_passed
    /\ checked.errors # <<>>
    /\ result.returned
    /\ ~result.success
    /\ result.errors = checked.errors

\* what a returned result holds besides its success flag
OutcomeOf(res) ==
    [instance_id |-> res.instance_id, errors |-> res.errors,
     evaluation_results |-> res.evaluation_results]

\* a returned result is the function validate_file of the file and of what
\* the collaborators did
ResultIsFunctionOfRun ==
    pc = "done" => OutcomeOf(result) = validate_file(file, env)

\* an error of the list quotes the text
Quotes(errs, text) == \E i \in 1..Len(errs) : text \in Range(errs[i].msg.names)

\* C13: after a harness call that raised, log discovery is still done: with
\* no log the file ends with the error of the discovery, and with a log
\* make_test_spec is called and the file ends exactly as it would have had
\* the harness call returned.
C13_HarnessRaiseStillDiscovers ==
    (pc = "done" /\ env.run_error)
    => IF Locate(env.fs) = ""
       THEN result.errors = <<ExecErr(instance_id, NotFoundMsg(env))>>
       ELSE /\ "make_test_spec" \in Range(calls)
            /\ OutcomeOf(result) = validate_file(file, [env EXCEPT !.run_error = FALSE])

C13_Witness ==
    /\ pc = "done"
    /\ env.run_error
    /\ Locate(env.fs) = P_RUN
    /\ env.spec = "ok"
    /\ ~BuildFailed(env)
    /\ "get_eval_report" \in Range(calls)
    /\ checked.exc = "none"
    /\ result.success

\* C14 (as stated; fails): when the harness call raised, the errors of the
\* file's result quote the exception, whatever the later steps found.
C14_HarnessErrorSurfaced ==
    (pc = "done" /\ env.run_error) => Quotes(result.errors, RunErrorText)

\* sub occurs in seq as a run of consecutive elements
Contains(seq, sub) ==
    \E i \in 0..(Len(seq) - Len(sub)) : SubSeq(seq, i + 1, i + Len(sub)) = sub

\* the candidate log paths, in the order they are tried
CandidatePaths ==
    <<P_TEST, P_RUN, B_RUN_FLAT, B_FLAT, L_TEST, L_RUN_FLAT, L_FLAT>>

\* the listing of the expected log directory when no candidate exists
ExpectedDirListing(fs) == IF P_DIFF \in fs THEN <<"patch.diff">> ELSE <<>>

\* C15: when the harness was submitted to and no candidate log path exists,
\* the file ends with success false and exactly one Execution error, grading
\* was never called, and the error holds the candidate paths tried, the
\* listing of the expected log directory and, when the harness raised, the
\* text of its exception.
C15_NoLogIsExecutionError ==
    (pc = "done" /\ "run_evaluation" \in Range(calls)
        /\ \A p \in Range(CandidatePaths) : p \notin env.fs)
    => /\ ~result.success
       /\ Len(result.errors) = 1
       /\ result.errors[1].kind = "Execution error"
       /\ "get_eval_report" \notin Range(calls)
       /\ Contains(result.errors[1].msg.names, <<"tried">> \o CandidatePaths)
       /\ Contains(result.errors[1].msg.names,
                   <<"files">> \o ExpectedDirListing(env.fs) \o <<"errors">>)
       /\ env.run_error
          => Contains(result.errors[1].msg.names, <<"run_error", RunErrorText>>)

C15_Witness ==
    /\ pc = "done"
    /\ "run_evaluation" \in Range(calls)
    /\ env.run_error
    /\ env.fs = {P_DIFF}
    /\ ~result.success
    /\ Len(result.errors) = 1
    /\ result.errors[1].kind = "Execution error"
    /\ Quotes(result.errors, RunErrorText)
    /\ Quotes(result.errors, "patch.diff")

\* a readable run_instance.log exists and holds a build-failure marker
HasBuildMarker(e) ==
    /\ P_RUN \in e.fs
    /\ e.readable
    /\ \E i \in 1..Len(e.runlog) :
          e.runlog[i] \in {"BuildImageError: x", "Error building image y"}

\* the result of a file classified as a build failure
IsBuildFailure(res, iid) ==
    /\ ~res.success
    /\ res.errors = <<ExecErr(iid, BuildFailedMsg(iid))>>

\* C16 (as stated; fails): whenever the run's run_instance.log is available
\* and holds a build-failure marker, the file ends as one Execution error
\* with the build-failure message and grading was never called.
C16_BuildMarkerIsBuildFailure ==
    (pc = "done" /\ "run_evaluation" \in Range(calls) /\ HasBuildMarker(env))
    => /\ IsBuildFailure(result, instance_id)
       /\ "get_eval_report" \notin Range(calls)

\* what does hold: grading is never called, and the build-failure message
\* is given whenever make_test_spec returned
BuildMarkerAfterTestSpec ==
    (pc = "done" /\ "run_evaluation" \in Range(calls) /\ HasBuildMarker(env))
    => /\ "get_eval_report" \notin Range(calls)
       /\ ~result.success
       /\ Len(result.errors) = 1
       /\ result.errors[1].kind = "Execution error"
       /\ env.spec = "ok" => IsBuildFailure(result, instance_id)

\* the expected tests of a data point, of both lists
ExpectedTests(dp) ==
    Range(TestsOf(dp, "FAIL_TO_PASS")) \cup Range(TestsOf(dp, "PASS_TO_PASS"))

\* C17 (as stated; fails): whenever grading returned a report in which every
\* expected test resolves to UNKNOWN, by an explicit status or by having no
\* entry, the file ends with exactly one Execution error and no per-test
\* diagnostic.
C17_AllUnknownIsExecutionError ==
    (pc = "done" /\ env.grade \in {"no_tests", "tests"}
        /\ ExpectedTests(data_point) # {}
        /\ \A test \in ExpectedTests(data_point) : ClaimStatus(env.report, test) = S_UNKNOWN)
    => /\ Len(result.errors) = 1
       /\ result.errors[1].kind = "Execution error"
       /\ result.errors[1].test = ""

\* a step of validate_file other than the harness submission raised
StepRaised ==
    \/ loaded.exc \notin {"none", "unset"}
    \/ env.lookup \notin {"found", "unset"}
    \/ env.spec = "raised"
    \/ env.grade = "raised"
    \/ checked.exc \notin {"none", "unset"}

\* C18 (as stated; fails): validate_file always ends by returning a
\* ValidationResult for its file, and when a step raised (load, lookup,
\* harness submission, grading, checker) the result has success false and
\* a reported error.
C18_FaultsBecomeFailedResults ==
    /\ pc \in {"start", "lookup", "submit", "locate", "scan", "grade", "check", "done"}
    /\ pc = "done" => (result.returned /\ result.file_path = file.path)
    /\ (pc = "done" /\ (StepRaised \/ env.run_error))
       => (~result.success /\ result.errors # <<>>)

\* what does hold: the same with the harness submission left out of the
\* steps that raise
FaultsButSubmissionBecomeFailedResults ==
    /\ pc \in {"start", "lookup", "submit", "locate", "scan", "grade", "check", "done"}
    /\ pc = "done" => (result.returned /\ result.file_path = file.path)
    /\ (pc = "done" /\ StepRaised)
       => /\ ~result.success
          /\ Len(result.errors) = 1
          /\ result.errors[1].kind \in {"Structural error", "Execution error", "Unexpected error"}

\* the files of the results of a batch, in order
ResultsFiles == [i \in 1..Len(batch.results) |-> batch.results[i].file_path]

\* the loop of a batch driver has been left, and not by an interrupt
BatchRan ==
    /\ pc \in {"report", "exited", "returned"}
    /\ batch.files_to_validate # <<>>
    /\ ~batch.interrupted

\* the file sequence as the claims state it: the arguments in the order
\* given, a directory standing for its JSON files sorted by name
RECURSIVE ClaimResolved(_)
ClaimResolved(paths) ==
    IF paths = <<>> THEN <<>>
    ELSE (CASE Head(paths).kind = "json" -> <<Head(paths).n>>
            [] Head(paths).kind = "dir" -> [i \in FileNames |-> i]
            [] OTHER -> <<>>) \o ClaimResolved(Tail(paths))

\* C19: with continue_on_error unset, the results are those of a prefix of
\* the file sequence, a failed result is the last one and ends the loop, the
\* loop ends before the last file only on a failed result, and the
\* collaborators ran for no file beyond the results.
C19_StopAtFirstFailure ==
    ~batch.continue_on_error
    => /\ ResultsFiles = SubSeq(batch.files_to_validate, 1, Len(batch.results))
       /\ Len(batch.runs) = Len(batch.results)
       /\ \A i \in 1..Len(batch.results) :
             ~batch.results[i].success => (i = Len(batch.results) /\ pc # "loop")
       /\ BatchRan
          => \/ Len(batch.results) = Len(batch.files_to_validate)
             \/ ~batch.results[Len(batch.results)].success

C19_Witness ==
    /\ pc = "exited"
    /\ ~batch.continue_on_error
    /\ batch.paths = <<DirPath>>
    /\ Len(batch.files_to_validate) = MaxFiles
    /\ batch.disk[1] = "structural"
    /\ Len(batch.results) = 1
    /\ batch.results[1].file_path = 1
    /\ batch.results[1].errors[1].kind = "Structural error"
    /\ batch.exit = "1"

\* C20: with continue_on_error set, the loop is left only after the last
\* file, and then there is one result per file of the file sequence, in its
\* order, each the result of validating that file.
C20_ContinuePastFailures ==
    batch.continue_on_error
    => /\ pc = "loop" => Len(batch.results) < Len(batch.files_to_validate)
       /\ BatchRan
          => /\ batch.files_to_validate = ClaimResolved(batch.paths)
             /\ ResultsFiles = batch.files_to_validate
             /\ \A i \in 1..Len(batch.results) :
                   LET n == batch.files_to_validate[i] IN
                   batch.results[i]
                      = BatchResult(n, validate_file(ContentOf(batch.disk[n]), batch.runs[i]))

C20_Witness ==
    /\ pc = "returned"
    /\ batch.continue_on_error
    /\ batch.glob[1] = MaxFiles
    /\ batch.disk[1] = "structural"
    /\ Len(batch.results) = MaxFiles
    /\ batch.results[1].file_path = 1
    /\ ~batch.results[1].success
    /\ batch.results[2].success
    /\ ~batch.results[MaxFiles].success

\* C21: the command, when not interrupted, exits with 0 or 1, and with 0
\* exactly when at least one file was validated and every result
\* succeeded; so it exits with 1 when a result failed, under either policy,
\* when setting up failed, and when no file was validated.
C21_ExitCode ==
    (pc = "exited" /\ batch.driver = "cli" /\ ~batch.interrupted)
    => /\ batch.exit \in {"0", "1"}
       /\ batch.exit = "0"
          <=> /\ batch.results # <<>>
              /\ \A i \in 1..Len(batch.results) : batch.results[i].success

C21_Witness ==
    /\ pc = "exited"
    /\ batch.driver = "cli"
    /\ batch.continue_on_error
    /\ Len(batch.results) = 2
    /\ ~batch.results[1].success
    /\ batch.results[2].success
    /\ batch.exit = "1"

\* C23: an interrupt can arrive at every point of the command's batch, also
\* inside the validation of a file; once it has, no file is validated and
\* no result is added or changed, and the command exits with 130.
C23_InterruptStopsBatch ==
    /\ []((batch.driver = "cli" /\ pc \in {"setup", "collect", "loop", "report"})
            => ENABLED CliInterrupt)
    /\ [](batch.interrupted
            => /\ pc \in {"interrupted", "exited"}
               /\ pc = "exited" => batch.exit = "130")
    /\ [][batch.interrupted
            => (batch'.results = batch.results /\ batch'.runs = batch.runs)]_vars

C23_Witness ==
    /\ pc = "exited"
    /\ batch.interrupted
    /\ batch.in_file = 2
    /\ Len(batch.results) = 1
    /\ batch.results[1].success
    /\ Len(batch.files_to_validate) = MaxFiles
    /\ batch.exit = "130"

\* the results of the runs of a batch that were submitted to the harness
SubmittedRuns == {i \in 1..Len(batch.results) : batch.runs[i].lookup = "found"}

\* C22 (as stated; fails): two validation runs of the same data point use
\* distinct run ids and distinct log directories.
C22_RunIdsAreFresh ==
    \A i \in SubmittedRuns, j \in SubmittedRuns :
       (i # j /\ batch.results[i].file_path = batch.results[j].file_path)
       => /\ run_id(batch.results[i].instance_id) # run_id(batch.results[j].instance_id)
          /\ log_dir(batch.results[i].instance_id) # log_dir(batch.results[j].instance_id)

\* C24: when the lookup returns no instance or raises a not-found error,
\* the file ends with exactly one Execution error that names the instance
\* id, and neither the harness nor grading was called.
C24_InstanceNotFound ==
    (pc = "done" /\ env.lookup \in {"empty", "missing_ids"})
    => /\ ~result.success
       /\ Len(result.errors) = 1
       /\ result.errors[1].kind = "Execution error"
       /\ Quotes(result.errors, idOf(data_point))
       /\ calls = <<"load_swebench_dataset">>

C24_Witness ==
    /\ pc = "done"
    /\ env.lookup = "missing_ids"
    /\ result.instance_id = "i1"
    /\ Quotes(result.errors, "i1")
    /\ result.errors[1].kind = "Execution error"

\* a record was loaded, its instance found, a log located with no
\* build-failure marker, and grading returned a report
Graded ==
    /\ pc = "done"
    /\ loaded.exc = "none"
    /\ env.lookup = "found"
    /\ \E p \in Range(CandidatePaths) : p \in env.fs
    /\ ~HasBuildMarker(env)
    /\ env.grade \in {"no_tests", "tests"}

\* every entry of a report resolves to UNKNOWN, and there is one
ClaimAllUnknown(m) ==
    /\ \E k \in TestKeys : HasEntry(m, k)
    /\ \A k \in TestKeys : HasEntry(m, k) => ClaimStatus(m, k) = S_UNKNOWN

\* C25 (as stated; fails): whenever the graded report gives a passing
\* status to every test of both lists, the result is success with no
\* errors.
C25_PassingReportSucceeds ==
    (Graded /\ \A test \in ExpectedTests(data_point) : ClaimPassing(env.report, test))
    => (result.success /\ result.errors = <<>>)

\* C25 (amended): the same, provided that the report of a record that
\* expects no test at all is empty or not all-UNKNOWN.
C25_PassingReportNotAllUnknown ==
    (Graded /\ (ExpectedTests(data_point) # {} \/ ~ClaimAllUnknown(env.report))
        /\ \A test \in ExpectedTests(data_point) : ClaimPassing(env.report, test))
    => (result.success /\ result.errors = <<>>)

C25_Witness ==
    /\ Graded
    /\ TestsOf(data_point, "FAIL_TO_PASS") = <<"t1">>
    /\ TestsOf(data_point, "PASS_TO_PASS") = <<"t2">>
    /\ ClaimPassing(env.report, "t1")
    /\ ClaimPassing(env.report, "t2")
    /\ "get_eval_report" \in Range(calls)
    /\ result.success
    /\ result.errors = <<>>

\* the collaborator calls of validate_file, in the order of its code
CallOrder == <<"load_swebench_dataset", "run_evaluation", "make_test_spec", "get_eval_report">>

IsPrefix(s, t) == Len(s) <= Len(t) /\ \A i \in 1..Len(s) : s[i] = t[i]

\* the kinds of the classified failures
ClassifiedKinds == {"Structural error", "Execution error", "Unexpected error"}

\* a failure classification was made
Failed == \E i \in 1..Len(errors) : errors[i].kind \in ClassifiedKinds

\* the steps of validate_file that have run: load, lookup, submission, log
\* location, grading, outcome check
StepsRun ==
    <<loaded.exc # "unset",
      env.lookup # "unset",
      "run_evaluation" \in Range(calls),
      "run_evaluation" \in Range(calls) /\ pc \notin {"submit", "locate"},
      env.grade # "unset",
      checked.exc # "unset">>

\* C26: load, lookup, submission, log location, grading and outcome check
\* each happen at most once and only in that order, a step runs only if
\* every earlier step ran and succeeded, and once a failure is classified no
\* later step runs and the result is success=false.
C26_StateMachine ==
    /\ [](/\ IsPrefix(calls, CallOrder)
          /\ \A i \in 1..5 : StepsRun[i + 1] => StepsRun[i]
          /\ StepsRun[2] => loaded.exc = "none"
          /\ StepsRun[3] => env.lookup = "found"
          /\ StepsRun[5] => (Locate(env.fs) # "" /\ env.spec = "ok" /\ ~BuildFailed(env))
          /\ StepsRun[6] => env.grade \in {"no_tests", "tests"}
          /\ Failed => (pc = "done" /\ result.returned /\ ~result.success))
    /\ [][/\ \A i \in 1..6 : StepsRun[i] => StepsRun[i]'
          /\ Cardinality({i \in 1..6 : StepsRun[i]' /\ ~StepsRun[i]}) <= 1
          /\ loaded.exc # "unset" => loaded' = loaded
          /\ env.lookup # "unset" => env.lookup' = env.lookup
          /\ env.grade # "unset" => env.grade' = env.grade
          /\ checked.exc # "unset" => checked' = checked
          /\ ~Failed]_vars

C26_Witness ==
    /\ pc = "done"
    /\ calls = <<"load_swebench_dataset", "run_evaluation", "make_test_spec">>
    /\ Failed
    /\ ~result.success
    /\ env.grade = "unset"
    /\ checked.exc = "unset"

\* the kinds of the per-test outcome diagnostics
DiagKinds == {DiagKind("FAIL_TO_PASS"), DiagKind("PASS_TO_PASS")}

\* the shapes of an errors list: empty, one classified error, or per-test
\* diagnostics only
ErrorsShape(errs) ==
    \/ errs = <<>>
    \/ Len(errs) = 1 /\ errs[1].kind \in ClassifiedKinds
    \/ \A i \in 1..Len(errs) : errs[i].kind \in DiagKinds

\* C27 (as stated; fails): every result has an errors list of one of the
\* shapes, and its instance_id is 'unknown' exactly when the load step did
\* not complete.
C27_ResultShapes ==
    pc = "done" =>
        /\ ErrorsShape(result.errors)
        /\ result.instance_id = "unknown" <=> loaded.exc # "none"

\* C27 (amended): every result has an errors list of one of the shapes; its
\* instance_id is 'unknown' when the load step did not complete and the
\* record's own instance_id when it did.
C27_ResultShapesAndRecordId ==
    pc = "done" =>
        /\ ErrorsShape(result.errors)
        /\ loaded.exc # "none" => result.instance_id = "unknown"
        /\ loaded.exc = "none" => result.instance_id = idOf(data_point)

C27_Witness ==
    /\ pc = "done"
    /\ loaded.exc = "none"
    /\ result.instance_id = idOf(data_point)
    /\ result.instance_id # "unknown"
    /\ Len(result.errors) = 2
    /\ \A i \in 1..2 : result.errors[i].kind \in DiagKinds

\* a failure arose after the load and before the outcome check: the lookup
\* raised, returned nothing or was unavailable, no log was found, the test
\* spec or the grading raised, the log holds a build-failure marker, or the
\* all-UNKNOWN check of the report fired
FailedInEvaluation ==
    /\ pc = "done"
    /\ loaded.exc = "none"
    /\ checked.exc = "unset"

\* C28: a failure arising between instance lookup and the end of grading
\* is exactly one 'Execution error', whatever exception was raised; an
\* 'Unexpected error' comes only from the load step or the outcome checker.
C28_EvaluationFailuresAreExecutionErrors ==
    /\ FailedInEvaluation
       => /\ Len(result.errors) = 1
          /\ result.errors[1].kind = "Execution error"
          /\ ~result.success
    /\ (pc = "done" /\ \E i \in 1..Len(result.errors) :
                          result.errors[i].kind = "Unexpected error")
       => \/ loaded.exc \notin {"none", "unset"}
          \/ checked.exc \notin {"none", "unset"}
    /\ (pc = "done" /\ loaded.exc = "none"
          /\ \/ env.lookup # "found"
             \/ \A p \in Range(CandidatePaths) : p \notin env.fs
             \/ env.spec = "raised"
             \/ env.grade = "raised"
             \/ HasBuildMarker(env)
             \/ (env.grade = "tests" /\ AllUnknown(env.report)))
       => FailedInEvaluation

C28_Witness ==
    /\ FailedInEvaluation
    /\ env.lookup = "found"
    /\ env.grade = "raised"
    /\ calls = CallOrder
    /\ Len(result.errors) = 1
    /\ result.errors[1].kind = "Execution error"

\* log discovery has run
Discovered == "run_evaluation" \in Range(calls) /\ pc \notin {"submit", "locate"}

\* the result is the 'log file not found' Execution error
IsNotFound(res) ==
    /\ res.returned
    /\ Len(res.errors) = 1
    /\ res.errors[1].kind = "Execution error"
    /\ res.errors[1].msg.detail = "Evaluation log file not found. Expected at: {}"

C30_NoExpectedTestsSucceeds ==
    (Graded /\ ExpectedTests(data_point) = {} /\ ~ClaimAllUnknown(env.report))
    => (result.success /\ result.errors = <<>>)

C30_Witness ==
    /\ Graded
    /\ TestsOf(data_point, "FAIL_TO_PASS") = <<>>
    /\ TestsOf(data_point, "PASS_TO_PASS") = <<>>
    /\ env.run_error
    /\ env.grade = "tests"
    /\ ClaimStatus(env.report, "t1") = S_FAIL
    /\ ClaimStatus(env.report, "t2") = S_UNKNOWN
    /\ HasEntry(env.report, "t2")
    /\ result.success

C30_WitnessEmptyReport ==
    /\ Graded
    /\ ExpectedTests(data_point) = {}
    /\ env.report = EmptyMapping
    /\ result.success

\* a batch over one directory argument ran to its end: validate_directory
\* returned, or main left its loop with a validator that was constructed
DirectoryBatchDone ==
    /\ ~batch.interrupted
    /\ batch.paths \in {<<DirPath>>, <<EmptyDirPath>>}
    /\ \/ batch.driver = "validate_directory" /\ pc = "returned"
       \/ /\ batch.driver = "cli"
          /\ pc = "exited"
          /\ batch.results # <<>> \/ batch.paths = <<EmptyDirPath>>

\* the JSON files of the directory argument, sorted by name
SortedJsonFiles ==
    IF batch.paths = <<DirPath>> THEN [i \in 1..MaxFiles |-> i] ELSE <<>>

\* C31: for one directory argument, the results a driver ends with are the
\* results the other driver yields for the same directory, files, policy and
\* collaborator behaviour, and they are those of a prefix of the directory's
\* JSON files sorted by name.
C31_DriversAgree ==
    DirectoryBatchDone =>
        /\ IsPrefix(ResultsFiles, SortedJsonFiles)
        /\ batch.driver = "cli" =>
              batch.results = validate_directory(batch.paths[1], batch.glob, batch.disk,
                                                 batch.runs, batch.continue_on_error)
        /\ batch.driver = "validate_directory" =>
              batch.results = main_results(batch.paths, batch.glob, batch.disk,
                                           batch.runs, batch.continue_on_error)

C31_Witness ==
    /\ DirectoryBatchDone
    /\ batch.driver = "validate_directory"
    /\ ~batch.continue_on_error
    /\ batch.glob[1] = MaxFiles
    /\ Len(batch.results) = 2
    /\ batch.results[1].success
    /\ ~batch.results[2].success
    /\ ResultsFiles = <<1, 2>>
    /\ batch.results = main_results(batch.paths, batch.glob, batch.disk,
                                    batch.runs, batch.continue_on_error)

====
